---- MODULE Spec2Model ----
(***************************************************************************)
(* A model of the expense ledger of account_manager (src/logic.py): the    *)
(* CSV-backed expense store (migrate_expense_ids, add_expense,             *)
(* update_expense, delete_expense), the price parser it validates with     *)
(* (Spec, PriceSpec) and the categories kept in a JSON side-file (CatSpec).*)
(*                                                                         *)
(* A text (Python str) is a sequence of one-character strings.  The only   *)
(* whitespace character of the model's alphabet is " ".  A row of the CSV  *)
(* file is a sequence of texts, the file a sequence of rows: csv.writer    *)
(* followed by csv.reader gives back the rows that were written, a row of  *)
(* no column being a blank line.                                           *)
(***************************************************************************)
EXTENDS Integers, Sequences, FiniteSets, TLC

\* ------------------------------------------------------------------ texts

WS == " "

RECURSIVE LStrip(_)
LStrip(s) == IF s = <<>> THEN s
             ELSE IF Head(s) = WS THEN LStrip(Tail(s)) ELSE s

RECURSIVE RStrip(_)
RStrip(s) == IF s = <<>> THEN s
             ELSE IF s[Len(s)] = WS THEN RStrip(SubSeq(s, 1, Len(s) - 1)) ELSE s

\* str.strip()
Strip(s) == RStrip(LStrip(s))

\* (a faulty variant of Replace, for sensitivity: the text is kept as it is)
KeepText(s, a, b) == s

\* str.replace(a, b) for one-character a and b
Replace(s, a, b) == [i \in 1..Len(s) |-> IF s[i] = a THEN b ELSE s[i]]

\* str.replace(a, "") for a one-character a
RECURSIVE Remove(_, _)
Remove(s, a) == IF s = <<>> THEN s
                ELSE IF Head(s) = a THEN Remove(Tail(s), a)
                ELSE <<Head(s)>> \o Remove(Tail(s), a)

\* --------------------------------------------------------------- numbers
\* A float is modelled by the rational it stands for, in lowest terms
\* (rounding is not modelled).

RECURSIVE Gcd(_, _)
Gcd(a, b) == IF b = 0 THEN a ELSE Gcd(b, a % b)

Abs(x) == IF x < 0 THEN -x ELSE x

Rat(n, d) == LET g == Gcd(Abs(n), Abs(d))
                 sg == IF d < 0 THEN -1 ELSE 1
             IN [n |-> sg * (n \div g), d |-> sg * (d \div g)]

Zero == [n |-> 0, d |-> 1]

RatAdd(x, y) == Rat(x.n * y.d + y.n * x.d, x.d * y.d)
RatSub(x, y) == Rat(x.n * y.d - y.n * x.d, x.d * y.d)
RatMul(x, y) == Rat(x.n * y.n, x.d * y.d)
RatDiv(x, y) == Rat(x.n * y.d, x.d * y.n)
RatNeg(x) == [n |-> -x.n, d |-> x.d]

DigitChars == <<"0", "1", "2", "3", "4", "5", "6", "7", "8", "9">>
Digits == {DigitChars[i] : i \in 1..10}
DigitVal(c) == (CHOOSE i \in 1..10 : DigitChars[i] = c) - 1
Letters == {"x", "y", "T", "r", "u", "e"}

\* the keyword a run of letters may spell
TrueWord == <<"T", "r", "u", "e">>

RECURSIVE Pow10(_)
Pow10(k) == IF k = 0 THEN 1 ELSE 10 * Pow10(k - 1)

\* the integer written by a run of digits
RECURSIVE DigitsVal(_)
DigitsVal(s) == IF s = <<>> THEN 0
                ELSE 10 * DigitsVal(SubSeq(s, 1, Len(s) - 1)) + DigitVal(s[Len(s)])

\* the number written by digits with at most one "."
NumberVal(s) == LET dots == {i \in 1..Len(s) : s[i] = "."}
                    frac == IF dots = {} THEN 0
                            ELSE Len(s) - (CHOOSE i \in dots : TRUE)
                IN Rat(DigitsVal(Remove(s, ".")), Pow10(frac))

IsNumberText(s) == /\ \A i \in 1..Len(s) : s[i] \in Digits \cup {"."}
                   /\ Cardinality({i \in 1..Len(s) : s[i] = "."}) <= 1
                   /\ \E i \in 1..Len(s) : s[i] \in Digits

\* float(value) of a text over the model's alphabet: an optional sign, then
\* digits with at most one ".".  ok = FALSE stands for ValueError.
PyFloat(s) ==
    LET signed == s # <<>> /\ Head(s) \in {"+", "-"}
        body == IF signed THEN Tail(s) ELSE s
    IN IF IsNumberText(body)
       THEN [ok |-> TRUE,
             val |-> IF signed /\ Head(s) = "-" THEN RatNeg(NumberVal(body))
                     ELSE NumberVal(body)]
       ELSE [ok |-> FALSE, val |-> Zero]

\* ------------------------------------------------ ast.parse(expr, "eval")
\* The syntax tree of a text over the alphabet digits . + - * / ( ) and
\* letters.  ok = FALSE stands for SyntaxError.  Nodes:
\*   <<"num", v>>  <<"bool", b>>  <<"name">>  <<"tuple">>  <<"call">>
\*   <<"un", op, operand>>  <<"bin", op, left, right>>

Fail == [ok |-> FALSE, ast |-> <<"none">>, pos |-> 0]
Parsed(a, p) == [ok |-> TRUE, ast |-> a, pos |-> p]
At(s, i) == IF i >= 1 /\ i <= Len(s) THEN s[i] ELSE "$"

\* end of the longest run of characters of set cs starting at i
RECURSIVE RunEnd(_, _, _)
RunEnd(s, i, cs) == IF At(s, i) \in cs THEN RunEnd(s, i + 1, cs) ELSE i

\* a number literal at i: digits+ ["." digits*] or "." digits+; an integer
\* literal with a leading zero is a syntax error unless it is all zeros
ScanNumber(s, i) ==
    LET j == RunEnd(s, i, Digits)
        k == IF At(s, j) = "." THEN RunEnd(s, j + 1, Digits) ELSE j
        txt == SubSeq(s, i, k - 1)
        isInt == k = j
    IN IF ~IsNumberText(txt) THEN Fail
       ELSE IF isInt /\ Len(txt) > 1 /\ txt[1] = "0" /\ DigitsVal(txt) # 0 THEN Fail
       ELSE IF At(s, k) \in Letters THEN Fail
       ELSE Parsed(<<"num", NumberVal(txt)>>, k)

\* The recursive-descent parser, one operator for all the grammar's rules
\* (k names the rule, left is the operand already parsed, i the position):
\*   expr    : term (("+" | "-") term)*
\*   term    : factor (("*" | "/" | "//") factor)*
\*   factor  : ("+" | "-") factor | power
\*   power   : primary ["**" factor]
\*   primary : atom ("(" [expr] ")")*
\*   atom    : NUMBER | NAME | "(" [expr] ")"
NoLeft == <<"none">>

\* (a faulty variant of IsTermOp, for sensitivity: "-" binds as tightly as "*")
IsTermOpWithMinus(c) == c \in {"*", "/", "-"}

\* the operators of the rules expr and term
IsExprOp(c) == c \in {"+", "-"}
IsTermOp(c) == c \in {"*", "/"}

\* a run of letters and digits: the constant True, or a name
WordNode(w) == IF w = TrueWord THEN <<"bool", TRUE>> ELSE <<"name">>

RECURSIVE Parse(_, _, _, _)
Parse(k, s, left, i) ==
    CASE k = "expr" ->
           LET t == Parse("term", s, NoLeft, i)
           IN IF t.ok THEN Parse("exprRest", s, t.ast, t.pos) ELSE Fail
      [] k = "exprRest" ->
           IF IsExprOp(At(s, i))
           THEN LET r == Parse("term", s, NoLeft, i + 1)
                IN IF r.ok THEN Parse("exprRest", s, <<"bin", s[i], left, r.ast>>, r.pos)
                   ELSE Fail
           ELSE Parsed(left, i)
      [] k = "term" ->
           LET f == Parse("factor", s, NoLeft, i)
           IN IF f.ok THEN Parse("termRest", s, f.ast, f.pos) ELSE Fail
      [] k = "termRest" ->
           IF At(s, i) = "/" /\ At(s, i + 1) = "/"
           THEN LET r == Parse("factor", s, NoLeft, i + 2)
                IN IF r.ok THEN Parse("termRest", s, <<"bin", "//", left, r.ast>>, r.pos)
                   ELSE Fail
           ELSE IF IsTermOp(At(s, i))
           THEN LET r == Parse("factor", s, NoLeft, i + 1)
                IN IF r.ok THEN Parse("termRest", s, <<"bin", s[i], left, r.ast>>, r.pos)
                   ELSE Fail
           ELSE Parsed(left, i)
      [] k = "factor" ->
           IF At(s, i) \in {"+", "-"}
           THEN LET f == Parse("factor", s, NoLeft, i + 1)
                IN IF f.ok THEN Parsed(<<"un", s[i], f.ast>>, f.pos) ELSE Fail
           ELSE LET p == Parse("primary", s, NoLeft, i)
                IN IF p.ok /\ At(s, p.pos) = "*" /\ At(s, p.pos + 1) = "*"
                   THEN LET f == Parse("factor", s, NoLeft, p.pos + 2)
                        IN IF f.ok THEN Parsed(<<"bin", "**", p.ast, f.ast>>, f.pos)
                           ELSE Fail
                   ELSE p
      [] k = "primary" ->
           LET a == Parse("atom", s, NoLeft, i)
           IN IF a.ok THEN Parse("primaryRest", s, a.ast, a.pos) ELSE Fail
      [] k = "primaryRest" ->
           IF At(s, i) = "("
           THEN IF At(s, i + 1) = ")" THEN Parse("primaryRest", s, <<"call">>, i + 2)
                ELSE LET e == Parse("expr", s, NoLeft, i + 1)
                     IN IF e.ok /\ At(s, e.pos) = ")"
                        THEN Parse("primaryRest", s, <<"call">>, e.pos + 1) ELSE Fail
           ELSE Parsed(left, i)
      [] OTHER ->
           IF At(s, i) \in Digits \cup {"."} THEN ScanNumber(s, i)
           ELSE IF At(s, i) \in Letters
           THEN LET j == RunEnd(s, i, Letters \cup Digits)
                IN Parsed(WordNode(SubSeq(s, i, j - 1)), j)
           ELSE IF At(s, i) = "("
           THEN IF At(s, i + 1) = ")" THEN Parsed(<<"tuple">>, i + 2)
                ELSE LET e == Parse("expr", s, NoLeft, i + 1)
                     IN IF e.ok /\ At(s, e.pos) = ")" THEN Parsed(e.ast, e.pos + 1)
                        ELSE Fail
           ELSE Fail

\* ast.parse(s, mode="eval")
AstParse(s) == LET e == Parse("expr", s, NoLeft, 1)
               IN IF e.ok /\ e.pos = Len(s) + 1 THEN e ELSE Fail

\* ------------------------------------------ _eval_arithmetic_expression
\* The outcome of an evaluation: err is "" (val is the result),
\* "ValueError" or "ZeroDivisionError".  A bool is an int to isinstance:
\* the constant True evaluates to float(True), 1.0.

Val(v) == [err |-> "", val |-> v]
Raise(e) == [err |-> e, val |-> Zero]

RECURSIVE EvalNode(_)
EvalNode(n) ==
    IF n[1] = "num" THEN Val(n[2])
    ELSE IF n[1] = "bool" THEN Val(IF n[2] THEN Rat(1, 1) ELSE Zero)
    ELSE IF n[1] = "un" /\ n[2] \in {"+", "-"}
    THEN LET v == EvalNode(n[3])
         IN IF v.err # "" THEN v
            ELSE IF n[2] = "+" THEN v ELSE Val(RatNeg(v.val))
    ELSE IF n[1] = "bin" /\ n[2] \in {"+", "-", "*", "/"}
    THEN LET l == EvalNode(n[3])
         IN IF l.err # "" THEN l
            ELSE LET r == EvalNode(n[4])
                 IN IF r.err # "" THEN r
                    ELSE IF n[2] = "+" THEN Val(RatAdd(l.val, r.val))
                    ELSE IF n[2] = "-" THEN Val(RatSub(l.val, r.val))
                    ELSE IF n[2] = "*" THEN Val(RatMul(l.val, r.val))
                    ELSE IF r.val.n = 0 THEN Raise("ZeroDivisionError")
                    ELSE Val(RatDiv(l.val, r.val))
    ELSE Raise("ValueError")

EvalArithmeticExpression(expr) ==
    LET e == Strip(expr)
    IN IF e = <<>> THEN Raise("ValueError")
       ELSE LET node == AstParse(e)
            IN IF ~node.ok THEN Raise("ValueError") ELSE EvalNode(node.ast)

ParsePriceToFloat(price) ==
    LET value == Replace(Strip(price), ",", ".")
    IN IF value = <<>> THEN Val(Zero)
       ELSE LET v2 == Remove(value, " ")
                f == PyFloat(v2)
            IN IF f.ok THEN Val(f.val) ELSE EvalArithmeticExpression(v2)

\* ---------------------------------------------------------- format_price
\* the decimal digits of a natural number
RECURSIVE IntText(_)
IntText(k) == IF k < 10 THEN <<DigitChars[k + 1]>>
              ELSE IntText(k \div 10) \o <<DigitChars[(k % 10) + 1]>>

\* f"{val:.2f}": val rounded to two decimals, a tie going to the even digit
TwoDecimals(v) ==
    LET a == Abs(v.n) * 100
        q == a \div v.d
        r == a % v.d
        up == 2 * r > v.d \/ (2 * r = v.d /\ q % 2 = 1)
        cents == IF up THEN q + 1 ELSE q
    IN (IF v.n < 0 THEN <<"-">> ELSE <<>>)
       \o IntText(cents \div 100) \o <<".">>
       \o <<DigitChars[((cents \div 10) % 10) + 1], DigitChars[(cents % 10) + 1]>>

\* format_price(price): err as for ParsePriceToFloat, text the display
FormatPrice(price) ==
    LET p == ParsePriceToFloat(price)
    IN [err |-> p.err, text |-> IF p.err = "" THEN TwoDecimals(p.val) ELSE <<>>]

\* ------------------------------------------------- the texts of the model
Empty == <<>>
Blank == <<" ">>
NameA == <<"a">>
NameAPadded == <<" ", "a", " ">>
DateD == <<"d">>
CatC == <<"c">>
DescE == <<"e">>
PriceOne == <<"1">>
PriceOnePadded == <<" ", "1">>
PriceTwoMinusOne == <<"2", "-", "1">>
PriceName == <<"x">>
PriceByZero == <<"1", "/", "0">>
IdX == <<"x">>
IdXPadded == <<" ", "x">>
IdUnknown == <<"z">>

\* ------------------------------------------------------ the price texts
\* The texts parse_price_to_float is applied to.  Some are written out:
PriceEmpty == <<>>
PriceBlank == <<" ", " ">>
PriceComma == <<"1", "2", ",", "5">>
PriceDot == <<"1", "2", ".", "5">>
PriceSpaced == <<"1", " ", "2">>
PriceCommaPadded == <<" ", "1", ",", "5", " ">>
PriceSum == <<"4", "+", "5", "*", "6">>
PriceParen == <<"(", "4", "+", "5", ")", "*", "6">>
PriceQuotient == <<"1", "0", "/", "4">>
PriceSpacedSum == <<"2", " ", "+", " ", "3">>
PriceNested == <<"(", "(", "2", ")", ")">>
PriceCall == <<"x", "(", "2", ")">>
PriceNumberCall == <<"2", "(", "3", ")">>
PriceTuple == <<"(", ")">>
PricePower == <<"2", "*", "*", "3">>
PriceFloorDiv == <<"7", "/", "/", "2">>
PriceDangling == <<"2", "+">>
PriceOpen == <<"(", "2">>
PriceTwoDots == <<"1", ".", ".", "2">>
PriceZeroByZero == <<"0", "/", "0">>
PriceCommaPair == <<"(", "2", ",", "3", ")">>

PriceTexts ==
    { PriceEmpty, PriceBlank, PriceComma, PriceDot, PriceSpaced,
      PriceCommaPadded, PriceSum, PriceParen, PriceQuotient,
      PriceSpacedSum, PriceNested, PriceCall, PriceNumberCall, PriceTuple,
      PricePower, PriceFloorDiv, PriceDangling, PriceOpen, PriceTwoDots,
      PriceZeroByZero, PriceCommaPair, PriceOne, PriceOnePadded,
      PriceTwoMinusOne, PriceName, PriceByZero }

\* The others are the spellings of expression trees:
\*   <<"lit", text>>   <<"un", op, operand>>   <<"bin", op, left, right>>
\* with at most MaxOps operators over the leaves 2 and 3, and with fewer
\* than MaxOps operators over these, the name x and the constant True.
MaxOps == 2

NoTree == <<"none">>
UnOps == {"+", "-"}
BinOps == {"+", "-", "*", "/"}
NumberLeaves == {<<"lit", <<"2">> >>, <<"lit", <<"3">> >>}
Leaves == NumberLeaves \cup {<<"lit", <<"x">> >>, <<"lit", TrueWord>>}

\* the trees of exactly k operators over the leaves ls
RECURSIVE TreesWith(_, _)
TreesWith(ls, k) ==
    IF k = 0 THEN ls
    ELSE {<<"un", op, t>> : op \in UnOps, t \in TreesWith(ls, k - 1)}
         \cup UNION { {<<"bin", op, l, r>> :
                          op \in BinOps, l \in TreesWith(ls, i),
                          r \in TreesWith(ls, k - 1 - i)}
                      : i \in 0..(k - 1) }

Trees == UNION {TreesWith(NumberLeaves, k) : k \in 0..MaxOps}
           \cup UNION {TreesWith(Leaves, k) : k \in 0..(MaxOps - 1)}

\* how tightly the top of a tree binds: + and - least, then * and /, then
\* a sign, then a leaf
Prec(t) == IF t[1] = "lit" THEN 4
           ELSE IF t[1] = "un" THEN 3
           ELSE IF t[2] \in {"*", "/"} THEN 2 ELSE 1

\* The usual spelling of a tree where at least min is needed: parentheses
\* only around a part that binds less tightly than its place asks for, the
\* right operand of a binary operator asking for more than the left one.
RECURSIVE Spell(_, _)
Spell(t, min) ==
    LET body == IF t[1] = "lit" THEN t[2]
                ELSE IF t[1] = "un" THEN <<t[2]>> \o Spell(t[3], 3)
                ELSE Spell(t[3], Prec(t)) \o <<t[2]>> \o Spell(t[4], Prec(t) + 1)
    IN IF Prec(t) < min THEN <<"(">> \o body \o <<")">> ELSE body

PriceInputs ==
    {[tree |-> NoTree, text |-> s] : s \in PriceTexts}
      \cup {[tree |-> t, text |-> Spell(t, 1)] : t \in Trees}

\* ------------------------------------------------------ the categories
\* The side-file qt_options.json holds the categories and their colors.
\* The built-in categories and their colors (logic.py 78-99):
Nourriture == <<"N", "o", "u", "r", "r", "i", "t", "u", "r", "e">>
VieQuotidienne == <<"V", "i", "e", " ", "q", "u", "o", "t", "i", "d", "i", "e", "n", "n", "e">>
Sante == <<"S", "a", "n", "t", "é">>
Loisir == <<"L", "o", "i", "s", "i", "r">>
Vetement == <<"V", "ê", "t", "e", "m", "e", "n", "t">>
Transport == <<"T", "r", "a", "n", "s", "p", "o", "r", "t">>
Coiffeur == <<"C", "o", "i", "f", "f", "e", "u", "r">>
Epargne == <<"É", "p", "a", "r", "g", "n", "e">>

DEFAULT_CATEGORIES ==
    <<Nourriture, VieQuotidienne, Sante, Loisir,
      Vetement, Transport, Coiffeur, Epargne>>

DEFAULT_CATEGORY_COLORS ==
    <<<<"#", "F", "F", "C", "0", "C", "B">>,
      <<"#", "0", "0", "8", "0", "8", "0">>,
      <<"#", "b", "9", "2", "0", "2", "0">>,
      <<"#", "8", "0", "0", "0", "8", "0">>,
      <<"#", "2", "0", "b", "7", "b", "9">>,
      <<"#", "8", "0", "8", "0", "8", "0">>,
      <<"#", "A", "5", "2", "A", "2", "A">>,
      <<"#", "0", "0", "8", "0", "0", "0">>>>

\* (a faulty variant of DefaultColor, for sensitivity: no category has a built-in color)
NoDefaultColor(name) == <<>>

\* DEFAULT_CATEGORY_COLORS.get(name, ""): the lookup is by the exact name
DefaultColor(name) ==
    IF \E i \in 1..Len(DEFAULT_CATEGORIES) : DEFAULT_CATEGORIES[i] = name
    THEN DEFAULT_CATEGORY_COLORS[CHOOSE i \in 1..Len(DEFAULT_CATEGORIES) :
                                    DEFAULT_CATEGORIES[i] = name]
    ELSE <<>>

\* str.casefold(), for the capital letters of the model's alphabet
UpperChars == <<"A", "B", "C", "L", "N", "S", "T", "V", "É">>
LowerChars == <<"a", "b", "c", "l", "n", "s", "t", "v", "é">>

CasefoldChar(c) ==
    IF \E i \in 1..Len(UpperChars) : UpperChars[i] = c
    THEN LowerChars[CHOOSE i \in 1..Len(UpperChars) : UpperChars[i] = c]
    ELSE c

Casefold(s) == [i \in 1..Len(s) |-> CasefoldChar(s[i])]

HexChars == Digits \cup {"a", "b", "c", "d", "e", "f", "A", "B", "C", "D", "E", "F"}

\* _normalize_hex_color(color): the trimmed color when it is "#" followed
\* by 3 or 6 hexadecimal digits, "" otherwise (a color that is not a str
\* gives "" as well, and is modelled by "")
NormalizeHexColor(color) ==
    LET value == Strip(color)
    IN IF value = <<>> THEN <<>>
       ELSE IF Head(value) # "#" THEN <<>>
       ELSE IF Len(value) \notin {4, 7} THEN <<>>
       ELSE IF \E i \in 2..Len(value) : value[i] \notin HexChars THEN <<>>
       ELSE value

\* The side-file is [kind, items]:
\*   kind "absent"  : no file;  "corrupt" : not JSON;
\*        "value"   : JSON, but not an object;
\*        "nolist"  : an object whose "categories" is missing or not a list;
\*        "object"  : an object whose "categories" is the list items.
\* An item of the list is [t, name, color]: t = "str" is a string (the
\* legacy format), t = "obj" an object with a string name, t = "other"
\* anything else (a number, an object whose name is not a string).
File(kind, items) == [kind |-> kind, items |-> items]
Item(t, name, color) == [t |-> t, name |-> name, color |-> color]
Entry(name, color) == [name |-> name, color |-> color]

\* list(DEFAULT_CATEGORIES) with {c: DEFAULT_CATEGORY_COLORS.get(c, "")}
DefaultEntries ==
    [i \in 1..Len(DEFAULT_CATEGORIES) |->
        Entry(DEFAULT_CATEGORIES[i], DefaultColor(DEFAULT_CATEGORIES[i]))]

\* (a faulty variant of SaveCategoryOptions, for sensitivity: the names are written as
\* strings, without their colors)
SaveNamesOnly(entries) ==
    File("object", [i \in 1..Len(entries) |-> Item("str", entries[i].name, <<>>)])

\* save_category_options(options_path, categories, colors): entries are
\* the categories, each with colors.get(name)
SaveCategoryOptions(entries) ==
    File("object",
         [i \in 1..Len(entries) |->
             Item("obj", entries[i].name, NormalizeHexColor(entries[i].color))])

\* the loops of load_category_options over the list (logic.py 158-167 for
\* the legacy format, 175-195 for the current one): out is the entries
\* kept so far, seen the casefolded names met
RECURSIVE LoadItems(_, _, _, _, _)
LoadItems(items, i, seen, out, legacy) ==
    IF i > Len(items) THEN out
    ELSE LET item == items[i]
             value == Strip(item.name)
             key == Casefold(value)
             given == NormalizeHexColor(item.color)
             color == IF legacy \/ given = <<>> THEN DefaultColor(value) ELSE given
         IN IF (~legacy /\ item.t # "obj") \/ value = <<>> \/ key \in seen
            THEN LoadItems(items, i + 1, seen, out, legacy)
            ELSE LoadItems(items, i + 1, seen \cup {key},
                           Append(out, Entry(value, color)), legacy)

\* the legacy format: a non-empty list of strings (logic.py 155-157)
IsLegacyList(f) ==
    /\ f.kind = "object" /\ f.items # <<>>
    /\ \A i \in 1..Len(f.items) : f.items[i].t = "str"

\* load_category_options(options_path): the entries returned (names in
\* order, each with its color) and the file it leaves
LoadCategoryOptions(f) ==
    LET found == IF f.kind # "object" THEN <<>>
                 ELSE LoadItems(f.items, 1, {}, <<>>, IsLegacyList(f))
        entries == IF found = <<>> THEN DefaultEntries ELSE found
    IN [file |-> SaveCategoryOptions(entries), entries |-> entries]

NamesOf(entries) == [i \in 1..Len(entries) |-> entries[i].name]

\* (a faulty variant of SaveCategories, for sensitivity: the stored colors are not
\* looked up)
SaveCategoriesDefaultColors(f, categories) ==
    SaveCategoryOptions([i \in 1..Len(categories) |->
                            Entry(categories[i], DefaultColor(categories[i]))])

\* save_categories(options_path, categories): the file it leaves
SaveCategories(f, categories) ==
    LET existing == LoadCategoryOptions(f).entries
        known(n) == {i \in 1..Len(existing) : existing[i].name = n}
        color(n) == IF known(n) # {} THEN existing[CHOOSE i \in known(n) : TRUE].color
                    ELSE DefaultColor(n)
    IN SaveCategoryOptions([i \in 1..Len(categories) |->
                               Entry(categories[i], color(categories[i]))])

\* What a call on the categories leaves: the file, its result ("ok" or the
\* error raised), and the names (and, for a load, colors) it returns.
CatOutcome(f, res, entries) ==
    [file |-> f, res |-> res, entries |-> entries]

\* (a faulty variant of AddCategory, for sensitivity: the name is not looked up first)
AddCategoryUnchecked(f, arg) ==
    LET name == Strip(arg)
        loaded == LoadCategoryOptions(f)
        added == Append(NamesOf(loaded.entries), name)
    IN IF name = <<>> THEN CatOutcome(f, "EmptyName", <<>>)
       ELSE CatOutcome(SaveCategories(loaded.file, added), "ok",
                       [i \in 1..Len(added) |-> Entry(added[i], <<>>)])

\* add_category(options_path, name)
AddCategory(f, arg) ==
    LET name == Strip(arg)
        loaded == LoadCategoryOptions(f)
        categories == NamesOf(loaded.entries)
        added == Append(categories, name)
    IN IF name = <<>> THEN CatOutcome(f, "EmptyName", <<>>)
       ELSE IF \E i \in 1..Len(categories) : Casefold(categories[i]) = Casefold(name)
       THEN CatOutcome(loaded.file, "DuplicateCategory", <<>>)
       ELSE CatOutcome(SaveCategories(loaded.file, added), "ok",
                       [i \in 1..Len(added) |-> Entry(added[i], <<>>)])

\* (a faulty variant of RemoveCategory, for sensitivity: the name is looked up with its
\* case)
RemoveCategoryExactCase(f, arg) ==
    LET name == Strip(arg)
        loaded == LoadCategoryOptions(f)
        categories == NamesOf(loaded.entries)
        remaining == SelectSeq(categories, LAMBDA c : c # name)
    IN IF name = <<>> THEN CatOutcome(f, "EmptyName", <<>>)
       ELSE IF Len(remaining) = Len(categories)
       THEN CatOutcome(loaded.file, "CategoryNotFound", <<>>)
       ELSE CatOutcome(SaveCategories(loaded.file, remaining), "ok",
                       [i \in 1..Len(remaining) |-> Entry(remaining[i], <<>>)])

\* remove_category(options_path, name)
RemoveCategory(f, arg) ==
    LET name == Strip(arg)
        loaded == LoadCategoryOptions(f)
        categories == NamesOf(loaded.entries)
        remaining == SelectSeq(categories, LAMBDA c : Casefold(c) # Casefold(name))
    IN IF name = <<>> THEN CatOutcome(f, "EmptyName", <<>>)
       ELSE IF Len(remaining) = Len(categories)
       THEN CatOutcome(loaded.file, "CategoryNotFound", <<>>)
       ELSE CatOutcome(SaveCategories(loaded.file, remaining), "ok",
                       [i \in 1..Len(remaining) |-> Entry(remaining[i], <<>>)])

\* ------------------------------------------------------------ the store
\* exists, rows : the expense file (csv_path.exists(), and the rows
\*                csv.reader yields; <<>> when the file is absent)
\* nextId       : how many ids uuid.uuid4() has minted
\* pc           : "idle", or "returned" when a call has returned and the
\*                caller has not yet acknowledged its outcome
\* call         : the last call of the store's interface, with the file it
\*                found (preExists, preRows) and its outcome (res); NoCall
\*                when idle
\* priceCall    : a text given to parse_price_to_float (with the tree it
\*                spells, if any), whether the call was made, and its
\*                outcome
\* optFile      : the categories' side-file
\* catCall      : the last call on the categories, with the file it found
\*                (preFile) and its outcome; NoCatCall when idle
\* cache        : the window's _expenses_cache, what read_expenses gave
\*                at the last reload
\* budgets      : the window's _budgets: year key -> month key ->
\*                category -> amount
\* yearText     : the current text of the window's year_combo
\* today        : QDate.currentDate(), as [year, month]
\* pivot        : what _update_pivot_totals last put in pivot_table, with
\*                the year and the date it was computed for
\* proc         : an update_expense or delete_expense call between its
\*                read of the file and its rewrite, with the rows it
\*                read; NoProc otherwise
VARIABLES exists, rows, nextId, pc, call, priceCall, optFile, catCall,
          cache, budgets, yearText, today, pivot, proc

vars == <<exists, rows, nextId, pc, call, priceCall, optFile, catCall,
          cache, budgets, yearText, today, pivot, proc>>

storeVars == <<exists, rows, nextId, pc, call>>

pivotVars == <<cache, budgets, yearText, today, pivot>>

\* Bounds of the model.
MaxRows == 3
MaxInitRows == 2
MaxMint == 3

\* uuid.uuid4().hex, the k-th id minted: a text no file holds before it is
\* minted, free of whitespace
Mint(k) == <<"u", ToString(k)>>

\* row[i] of Python (0-based) is Col(row, i + 1)
Col(row, i) == row[i]

\* row[1:6]
Details(row) == SubSeq(row, 2, 6)

\* ------------------------------------------------- migrate_expense_ids
\* (a faulty variant of NeedsMint, for sensitivity: ids seen on earlier rows are not checked)
NeedsMintOnlyEmpty(sid, seen) == sid = <<>>

\* a row of 6 or more columns gets a new id when its trimmed id is empty
\* or was seen on an earlier row (logic.py 463-464)
NeedsMint(sid, seen) == sid = <<>> \/ sid \in seen

\* the row written for a row of 6 or more columns (logic.py 468)
KeptRow(eid, row) == <<eid, row[2], row[3], row[4], row[5], row[6]>>

\* (a faulty variant of LegacyRow, for sensitivity: the fields are trimmed on the way)
LegacyRowTrimmed(eid, row) ==
    <<eid, Strip(row[1]), Strip(row[2]), Strip(row[3]), Strip(row[4]), Strip(row[5])>>

\* the row written for a legacy row of 5 columns (logic.py 478)
LegacyRow(eid, row) == <<eid, row[1], row[2], row[3], row[4], row[5]>>

\* the row written for a row of 1 to 4 columns (logic.py 485-490)
ShortRow(eid, row) ==
    LET f(k) == IF Len(row) >= k THEN row[k] ELSE <<>>
    IN <<eid, f(1), f(2), f(3), f(4), f(5)>>

\* The loop over the rows read (logic.py 457-491): i is the next row, seen
\* the ids seen, out the rows built, nw needs_write, n the ids minted.
RECURSIVE MigrateLoop(_, _, _, _, _, _)
MigrateLoop(rs, i, seen, out, nw, n) ==
    IF i > Len(rs) THEN [rows |-> out, needsWrite |-> nw, n |-> n]
    ELSE LET row == rs[i]
         IN IF Len(row) = 0 THEN MigrateLoop(rs, i + 1, seen, out, nw, n)
            ELSE IF Len(row) >= 6
            THEN LET sid == Strip(row[1])
                     mint == NeedsMint(sid, seen)
                     eid == IF mint THEN Mint(n + 1) ELSE sid
                 IN MigrateLoop(rs, i + 1, seen \cup {eid},
                                Append(out, KeptRow(eid, row)),
                                nw \/ mint \/ Len(row) # 6,
                                IF mint THEN n + 1 ELSE n)
            ELSE IF Len(row) = 5
            THEN MigrateLoop(rs, i + 1, seen \cup {Mint(n + 1)},
                             Append(out, LegacyRow(Mint(n + 1), row)), TRUE, n + 1)
            ELSE MigrateLoop(rs, i + 1, seen \cup {Mint(n + 1)},
                             Append(out, ShortRow(Mint(n + 1), row)), TRUE, n + 1)

\* (a faulty variant of MigrateExpenseIds, for sensitivity: the file is rewritten whether or not a row
\* changed)
MigrateAlwaysWrites(ex, rs, n) ==
    IF ~ex THEN [exists |-> ex, rows |-> rs, n |-> n, wrote |-> FALSE]
    ELSE LET m == MigrateLoop(rs, 1, {}, <<>>, FALSE, n)
         IN [exists |-> ex, rows |-> m.rows, n |-> m.n, wrote |-> TRUE]

\* migrate_expense_ids(csv_path): the file afterwards, the ids minted so
\* far, and whether the file was rewritten
MigrateExpenseIds(ex, rs, n) ==
    IF ~ex THEN [exists |-> ex, rows |-> rs, n |-> n, wrote |-> FALSE]
    ELSE LET m == MigrateLoop(rs, 1, {}, <<>>, FALSE, n)
         IN IF ~m.needsWrite
            THEN [exists |-> ex, rows |-> rs, n |-> n, wrote |-> FALSE]
            ELSE [exists |-> ex, rows |-> m.rows, n |-> m.n, wrote |-> TRUE]

\* ------------------------------------------- add, update, delete_expense
\* (a faulty variant of ValidateFields, for sensitivity: the category is not checked)
ValidateFieldsNoCategory(d) ==
    IF d[1] = <<>> \/ d[2] = <<>> THEN "MissingField"
    ELSE IF ParsePriceToFloat(d[3]).err = "ValueError" THEN "InvalidPrice"
    ELSE ParsePriceToFloat(d[3]).err

\* The checks add_expense and update_expense make on the trimmed fields
\* (logic.py 295-305, 362-372): "" when they pass.  ZeroDivisionError is
\* not a ValueError: the except clause lets it through as it is.
ValidateFields(d) ==
    IF d[1] = <<>> \/ d[2] = <<>> \/ d[4] = <<>> THEN "MissingField"
    ELSE LET p == ParsePriceToFloat(d[3])
         IN IF p.err = "ValueError" THEN "InvalidPrice" ELSE p.err

\* (a faulty variant of TrimAll, for sensitivity: the fields are kept as entered)
TrimNone(d) == d

\* the five fields, each trimmed (logic.py 289-293, 356-360)
TrimAll(d) == [i \in 1..Len(d) |-> Strip(d[i])]

\* What a call leaves: the file, the ids minted so far, its result ("ok" or
\* the error raised) and whether the migration it ran rewrote the file.
Outcome(ex, rs, n, res, w) ==
    [exists |-> ex, rows |-> rs, n |-> n, res |-> res, wrote |-> w]

\* existing[1:6] == details, for a row of 6 or more columns
\* (logic.py 320, 393)
SameDetails(row, details) == Len(row) >= 6 /\ Details(row) = details

\* (a faulty variant of AddFindsDuplicate, for sensitivity: prices are compared by value)
AddFindsDuplicateByValue(rs, details) ==
    \E i \in 1..Len(rs) :
        /\ Len(rs[i]) >= 6
        /\ <<rs[i][2], rs[i][3], rs[i][5], rs[i][6]>>
             = <<details[1], details[2], details[4], details[5]>>
        /\ ParsePriceToFloat(rs[i][4]) = ParsePriceToFloat(details[3])

\* the duplicate scan of add_expense (logic.py 313-324)
AddFindsDuplicate(rs, details) ==
    \E i \in 1..Len(rs) :
        \/ SameDetails(rs[i], details)
        \/ Len(rs[i]) = 5 /\ rs[i] = details

\* (a faulty variant of NewRow, for sensitivity: the price is stored evaluated and formatted)
NewRowEvaluated(id, details) ==
    <<id, details[1], details[2], FormatPrice(details[3]).text, details[4], details[5]>>

\* the row add_expense appends (logic.py 310-311)
NewRow(id, details) == <<id>> \o details

\* add_expense(csv_path, name=, date=, price=, category=, description=,
\* allow_duplicates=): d is <<name, date, price, category, description>>.
\* The id minted for a row that is then refused as a duplicate is not
\* counted: no file ever holds it.
AddExpense(ex, rs, n, d, allow) ==
    LET details == TrimAll(d)
        bad == ValidateFields(details)
    IN IF bad # "" THEN Outcome(ex, rs, n, bad, FALSE)
       ELSE LET m == MigrateExpenseIds(ex, rs, n)
            IN IF m.exists /\ ~allow /\ AddFindsDuplicate(m.rows, details)
               THEN Outcome(m.exists, m.rows, m.n, "DuplicateExpense", m.wrote)
               ELSE Outcome(TRUE, Append(m.rows, NewRow(Mint(m.n + 1), details)),
                            m.n + 1, "ok", m.wrote)

\* len(r) >= 1 and r[0] == expense_id (logic.py 383, 423)
HasId(row, id) == Len(row) >= 1 /\ row[1] = id

\* the first row whose first column is the id, 0 when there is none
\* (logic.py 381-385, 420-426)
FindId(rs, id) ==
    LET hits == {i \in 1..Len(rs) : HasId(rs[i], id)}
    IN IF hits = {} THEN 0 ELSE CHOOSE i \in hits : \A j \in hits : i <= j

\* (a faulty variant of UpdateFindsDuplicate, for sensitivity: only the rows before the one being updated are scanned)
UpdateFindsDuplicateBefore(rs, idx, details) ==
    \E i \in 1..(idx - 1) : SameDetails(rs[i], details)

\* (a faulty variant of UpdateFindsDuplicate, for sensitivity: the row being updated is scanned too)
UpdateFindsDuplicateAnyRow(rs, idx, details) ==
    \E i \in 1..Len(rs) : SameDetails(rs[i], details)

\* the duplicate scan of update_expense (logic.py 389-394)
UpdateFindsDuplicate(rs, idx, details) ==
    \E i \in 1..Len(rs) : i # idx /\ SameDetails(rs[i], details)

\* (a faulty variant of ReplacementRow, for sensitivity: the replaced row gets another id)
ReplacementRowNewId(id, details) == <<IdUnknown>> \o details

\* the row update_expense puts in place of the one found (logic.py 374-375)
ReplacementRow(id, details) == <<id>> \o details

\* update_expense(csv_path, expense_id=, new=, allow_duplicates=)
UpdateExpense(ex, rs, n, id, new, allow) ==
    IF ~ex THEN Outcome(ex, rs, n, "StoreNotFound", FALSE)
    ELSE LET m == MigrateExpenseIds(ex, rs, n)
             eid == Strip(id)
             details == TrimAll(new)
             bad == ValidateFields(details)
             idx == FindId(m.rows, eid)
         IN IF eid = <<>> THEN Outcome(m.exists, m.rows, m.n, "InvalidId", m.wrote)
            ELSE IF Len(new) # 5
            THEN Outcome(m.exists, m.rows, m.n, "InvalidFormat", m.wrote)
            ELSE IF bad # "" THEN Outcome(m.exists, m.rows, m.n, bad, m.wrote)
            ELSE IF idx = 0
            THEN Outcome(m.exists, m.rows, m.n, "RecordNotFound", m.wrote)
            ELSE IF ~allow /\ UpdateFindsDuplicate(m.rows, idx, details)
            THEN Outcome(m.exists, m.rows, m.n, "DuplicateExpense", m.wrote)
            ELSE Outcome(m.exists,
                         [m.rows EXCEPT ![idx] = ReplacementRow(eid, details)],
                         m.n, "ok", m.wrote)

\* rs without its i-th row
RemoveAt(rs, i) == SubSeq(rs, 1, i - 1) \o SubSeq(rs, i + 1, Len(rs))

\* (a faulty variant of DeleteExpense, for sensitivity: an id that is not found is not reported)
DeleteExpenseSilent(ex, rs, n, id) ==
    IF ~ex THEN Outcome(ex, rs, n, "StoreNotFound", FALSE)
    ELSE LET m == MigrateExpenseIds(ex, rs, n)
             eid == Strip(id)
             idx == FindId(m.rows, eid)
         IN IF eid = <<>> THEN Outcome(m.exists, m.rows, m.n, "InvalidId", m.wrote)
            ELSE IF idx = 0 THEN Outcome(m.exists, m.rows, m.n, "ok", m.wrote)
            ELSE Outcome(m.exists, RemoveAt(m.rows, idx), m.n, "ok", m.wrote)

\* delete_expense(csv_path, expense_id=)
DeleteExpense(ex, rs, n, id) ==
    IF ~ex THEN Outcome(ex, rs, n, "StoreNotFound", FALSE)
    ELSE LET m == MigrateExpenseIds(ex, rs, n)
             eid == Strip(id)
             idx == FindId(m.rows, eid)
         IN IF eid = <<>> THEN Outcome(m.exists, m.rows, m.n, "InvalidId", m.wrote)
            ELSE IF idx = 0
            THEN Outcome(m.exists, m.rows, m.n, "RecordNotFound", m.wrote)
            ELSE Outcome(m.exists, RemoveAt(m.rows, idx), m.n, "ok", m.wrote)

\* ---------------------------------------------------------- read_expenses
Expense(id, name, date, price, category, description) ==
    [id |-> id, name |-> name, date |-> date, price |-> price,
     category |-> category, description |-> description]

\* a reader that takes the first column of every row for an id
RowExpenseIdFirst(row) ==
    LET f(k) == IF Len(row) >= k THEN Strip(row[k]) ELSE <<>>
    IN Expense(f(1), f(2), f(3), f(4), f(5), f(6))

\* the Expense read_expenses makes of one non-blank row (window.py 346-359)
RowExpense(row) ==
    LET f(k) == IF Len(row) >= k THEN Strip(row[k]) ELSE <<>>
    IN IF Len(row) >= 6 THEN Expense(f(1), f(2), f(3), f(4), f(5), f(6))
       ELSE Expense(<<>>, f(1), f(2), f(3), f(4), f(5))

RECURSIVE ReadRows(_)
ReadRows(rs) ==
    IF rs = <<>> THEN <<>>
    ELSE LET e == RowExpense(Head(rs))
         IN IF Head(rs) = <<>> \/ e.name = <<>> \/ e.date = <<>> \/ e.category = <<>>
            THEN ReadRows(Tail(rs))
            ELSE <<e>> \o ReadRows(Tail(rs))

\* read_expenses(csv_path)
ReadExpenses(ex, rs) == IF ~ex THEN <<>> ELSE ReadRows(rs)

\* What reload puts in a table row for an expense (window.py 1096-1108):
\* the price column displays format_price(exp.price), or exp.price when
\* that raises, and keeps exp.price for editing.
TableRow(e) ==
    LET f == FormatPrice(e.price)
    IN [id |-> e.id, display |-> IF f.err = "" THEN f.text ELSE e.price,
        raw |-> e.price]

\* ExpensesWindow.reload: migrate, read, fill the table
Reload(ex, rs, n) ==
    LET m == MigrateExpenseIds(ex, rs, n)
        es == ReadExpenses(m.exists, m.rows)
    IN [out |-> Outcome(m.exists, m.rows, m.n, "ok", m.wrote),
        table |-> [i \in 1..Len(es) |-> TableRow(es[i])]]

\* ------------------------------------------------- _update_pivot_totals
\* The pivot of the window: one row per month, one column per category and
\* a Total column, then the rows "Total à date" and "Total année".
Tous == <<"T", "o", "u", "s">>
SansCategorie == <<"(", "S", "a", "n", "s", " ", "c", "a", "t", "é", "g", "o", "r", "i", "e", ")">>

\* year = None
NoYear == -1

\* an empty dict
NoBudgets == <<>>

\* the year of the selection (window.py 750-760): None for "Tous", for no
\* text and for a text int() refuses (the combo holds "Tous" and str(y))
SelectedYear(text) ==
    LET t == Strip(text)
    IN IF t = Tous \/ t = <<>> THEN NoYear
       ELSE IF \A i \in 1..Len(t) : t[i] \in Digits THEN DigitsVal(t)
       ELSE NoYear

\* f"{m:02d}"
TwoDigits(m) == <<DigitChars[(m \div 10) + 1], DigitChars[(m % 10) + 1]>>

IsLeapYear(y) == (y % 4 = 0 /\ y % 100 # 0) \/ y % 400 = 0

DaysInMonth(y, m) == IF m = 2 THEN (IF IsLeapYear(y) THEN 29 ELSE 28)
                     ELSE IF m \in {4, 6, 9, 11} THEN 30 ELSE 31

NoDate == [valid |-> FALSE, year |-> 0, month |-> 0]

\* QtCore.QDate.fromString(text, "dd/MM/yyyy"): two digits, a slash, two
\* digits, a slash, four digits, naming a day that exists
QDateFromString(text) ==
    IF Len(text) # 10 THEN NoDate
    ELSE IF text[3] # "/" \/ text[6] # "/" THEN NoDate
    ELSE IF \E i \in {1, 2, 4, 5, 7, 8, 9, 10} : text[i] \notin Digits THEN NoDate
    ELSE LET d == DigitsVal(SubSeq(text, 1, 2))
             m == DigitsVal(SubSeq(text, 4, 5))
             y == DigitsVal(SubSeq(text, 7, 10))
         IN IF y >= 1 /\ m \in 1..12 /\ d >= 1 /\ d <= DaysInMonth(y, m)
            THEN [valid |-> TRUE, year |-> y, month |-> m]
            ELSE NoDate

\* the column of an expense (window.py 765-769, 796-798)
PivotCategory(e) ==
    IF Strip(e.category) = <<>> THEN SansCategorie ELSE Strip(e.category)

\* the columns: the known categories and those of the expenses.  (The
\* code sorts them by casefold; the order places the columns and does not
\* enter the values.)
PivotColumns(categories, es) ==
    categories \cup {PivotCategory(es[i]) : i \in 1..Len(es)}

\* parse_price_to_float on the price texts of the model's expenses, each
\* evaluated once
PivotPrices == {<<"1", "0">>, <<"2", "0">>, <<"3">>, <<"2", ".", "5">>, <<"4">>,
                <<"7">>, PriceByZero, PriceOne}

ParsedPrices == [t \in PivotPrices |-> ParsePriceToFloat(t)]

\* float(logic.parse_price_to_float(exp.price)) (window.py 791-794)
PriceValue(price) ==
    IF price \in PivotPrices THEN ParsedPrices[price] ELSE ParsePriceToFloat(price)

\* cumuls after the first k expenses (window.py 782-799), as month ->
\* category -> sum, a category without spending standing at 0.0 as
\* cumuls[m].get(cat, 0.0) reads it; months are counted from 1
RECURSIVE Cumuls(_, _, _, _)
Cumuls(es, k, year, cols) ==
    IF k = 0 THEN [m \in 1..12 |-> [c \in cols |-> Zero]]
    ELSE LET e == es[k]
             date == QDateFromString(e.date)
             value == PriceValue(e.price)
             before == Cumuls(es, k - 1, year, cols)
         IN IF ~date.valid THEN before
            ELSE IF year # NoYear /\ date.year # year THEN before
            ELSE IF value.err # "" THEN before
            ELSE [before EXCEPT ![date.month][PivotCategory(e)] = RatAdd(@, value.val)]

\* the elements of a finite set of numbers, in increasing order
RECURSIVE Sorted(_)
Sorted(S) == IF S = {} THEN <<>>
             ELSE LET m == CHOOSE x \in S : \A y \in S : x <= y
                  IN <<m>> \o Sorted(S \ {m})

\* the sum of the values of f over S
RECURSIVE SumOf(_, _)
SumOf(f, S) ==
    IF S = {} THEN Zero
    ELSE LET x == CHOOSE x \in S : TRUE
         IN RatAdd(f[x], SumOf(f, S \ {x}))

\* budgets_for_year (window.py 771-774)
BudgetsForYear(bs, year) ==
    IF year # NoYear /\ IntText(year) \in DOMAIN bs THEN bs[IntText(year)]
    ELSE NoBudgets

\* (a faulty variant of BudgetSet, for sensitivity: a budget of 0 is no budget)
BudgetSetNonZero(year, by, m, cat) ==
    /\ year # NoYear
    /\ TwoDigits(m) \in DOMAIN by
    /\ cat \in DOMAIN by[TwoDigits(m)]
    /\ by[TwoDigits(m)][cat] # Zero

\* budget_set (window.py 826-833): the month's dict has the category
BudgetSet(year, by, m, cat) ==
    /\ year # NoYear
    /\ TwoDigits(m) \in DOMAIN by
    /\ cat \in DOMAIN by[TwoDigits(m)]

\* float(month_budgets.get(cat) or 0.0)
Budget(by, m, cat) == by[TwoDigits(m)][cat]

\* (a faulty variant of OnBudget, for sensitivity: all spending is counted)
OnBudgetOrNot(set, val) == val

\* what a category adds to month_expenses_on_budget_total (window.py 834-837)
OnBudget(set, val) == IF set THEN val ELSE Zero

\* a month's row (window.py 803-888): the text of each cell and of the
\* Total, and row_total
MonthRow(cum, cols, year, by, m) ==
    LET set(c) == BudgetSet(year, by, m, c)
        row_total == SumOf(cum[m], cols)
        month_has_any_budget == \E c \in cols : set(c)
        month_budget_total ==
            SumOf([c \in cols |-> IF set(c) THEN Budget(by, m, c) ELSE Zero], cols)
        month_expenses_on_budget_total ==
            SumOf([c \in cols |-> OnBudget(set(c), cum[m][c])], cols)
    IN [cells |-> [c \in cols |->
                     TwoDecimals(IF set(c) THEN RatSub(Budget(by, m, c), cum[m][c])
                                 ELSE cum[m][c])],
        total |-> TwoDecimals(IF month_has_any_budget
                              THEN RatSub(month_budget_total,
                                          month_expenses_on_budget_total)
                              ELSE row_total),
        row_total |-> row_total]

\* (a faulty variant of MonthsElapsed, for sensitivity: the year is not looked at)
MonthsElapsedAnyYear(year, current) ==
    IF current.month < 1 THEN 1 ELSE current.month

\* months_elapsed (window.py 893-897)
MonthsElapsed(year, current) ==
    LET is_current_year == year # NoYear /\ year = current.year
        months_elapsed == IF is_current_year THEN current.month ELSE 12
    IN IF months_elapsed < 1 THEN 1 ELSE months_elapsed

\* use_budgets_for_totals (window.py 931)
UseBudgetsForTotals(year, by) == year # NoYear /\ by # NoBudgets

\* a summary row over the months 1..upto (window.py 924-1031): the
\* category cells and the Total, where total is the sum of row_total over
\* those months
SummaryRow(cum, cols, year, by, upto, total) ==
    LET use == UseBudgetsForTotals(year, by)
        spent(c) == SumOf([m \in 1..12 |-> cum[m][c]], 1..upto)
        budget(c, n) ==
            SumOf([m \in 1..12 |->
                     IF use /\ TwoDigits(m) \in DOMAIN by
                            /\ c \in DOMAIN by[TwoDigits(m)]
                     THEN Budget(by, m, c) ELSE Zero], 1..n)
        remaining(c) == use /\ (budget(c, 12) # Zero \/ TwoDigits(1) \in DOMAIN by)
        budget_total == SumOf([c \in cols |-> budget(c, upto)], cols)
    IN [cells |-> [c \in cols |->
                     TwoDecimals(IF remaining(c) THEN RatSub(budget(c, upto), spent(c))
                                 ELSE spent(c))],
        total |-> TwoDecimals(IF use THEN RatSub(budget_total, total) ELSE total)]

NoPivot == [year |-> NoYear, current |-> [year |-> 0, month |-> 0],
            columns |-> {}, months |-> <<>>,
            toDate |-> [cells |-> <<>>, total |-> <<>>],
            yearEnd |-> [cells |-> <<>>, total |-> <<>>]]

\* the rows of the table, given cumuls (window.py 801-1031)
PivotRows(year, current, cols, by, cum) ==
    LET month == [m \in 1..12 |-> MonthRow(cum, cols, year, by, m)]
        monthly_totals == [m \in 1..12 |-> month[m].row_total]
        months_elapsed == MonthsElapsed(year, current)
        total_to_date == SumOf(monthly_totals, 1..months_elapsed)
        annual_total == SumOf(monthly_totals, 1..12)
    IN [year |-> year, current |-> current, columns |-> cols,
        months |-> [m \in 1..12 |-> [cells |-> month[m].cells,
                                     total |-> month[m].total]],
        toDate |-> SummaryRow(cum, cols, year, by, months_elapsed, total_to_date),
        yearEnd |-> SummaryRow(cum, cols, year, by, 12, annual_total)]

\* _update_pivot_totals: the table it fills, with the year and the date
\* it was filled for
UpdatePivotTotals(categories, es, bs, text, current) ==
    LET year == SelectedYear(text)
        cols == PivotColumns(categories, es)
    IN PivotRows(year, current, cols, BudgetsForYear(bs, year),
                 Cumuls(es, Len(es), year, cols))

\* ------------------------------------------------------------- the inputs
\* The field tuples <<name, date, price, category, description>> a caller
\* passes: two valid tuples that differ only in the price text ("1" and
\* "2-1" evaluate alike), a padded spelling of the first, and one tuple per
\* validation failure.
InputDetails ==
    { <<NameA, DateD, PriceOne, CatC, Empty>>,
      <<NameAPadded, DateD, PriceOnePadded, CatC, Blank>>,
      <<NameA, DateD, PriceTwoMinusOne, CatC, Empty>>,
      <<Blank, DateD, PriceOne, CatC, Empty>>,
      <<NameA, Empty, PriceOne, CatC, Empty>>,
      <<NameA, DateD, PriceOne, Blank, Empty>>,
      <<NameA, DateD, PriceName, CatC, Empty>>,
      <<NameA, DateD, PriceByZero, CatC, Empty>> }

\* The rows a file may hold before the program first touches it: current
\* rows with a plain, padded, empty or blank id, a row with a 7th column,
\* legacy 5-column rows, a shorter row and a blank line.
InitRowShapes ==
    { <<IdX, NameA, DateD, PriceOne, CatC, Empty>>,
      <<IdXPadded, NameA, DateD, PriceTwoMinusOne, CatC, Empty>>,
      <<Empty, NameA, DateD, PriceOne, CatC, DescE>>,
      <<Blank, NameA, DateD, PriceOne, CatC, Empty>>,
      <<IdX, NameA, DateD, PriceOne, CatC, Empty, <<"z">> >>,
      <<NameA, DateD, PriceOne, CatC, Empty>>,
      <<NameAPadded, DateD, PriceTwoMinusOne, CatC, DescE>>,
      <<NameA, DateD>>,
      <<>> }

InitFiles == UNION {[1..k -> InitRowShapes] : k \in 0..MaxInitRows}

\* The ids a caller passes: the first column of a row of the file, the
\* first id minted plain and padded, an id no row carries, a blank id.
IdArgs(rs) ==
    {rs[i][1] : i \in {j \in 1..Len(rs) : Len(rs[j]) >= 1}}
      \cup {Mint(1), <<" ">> \o Mint(1), IdUnknown, Blank}

\* ------------------------------------------------------ the state machine
NoDetails == <<Empty, Empty, Empty, Empty, Empty>>

NoCall == [op |-> "none", id |-> Empty, d |-> NoDetails, allow |-> FALSE,
           res |-> "", wrote |-> FALSE, table |-> <<>>,
           preExists |-> FALSE, preRows |-> <<>>, preN |-> 0]

NoCatCall == [op |-> "none", arg |-> Empty, res |-> "", entries |-> <<>>,
              preFile |-> File("absent", <<>>)]

NoPrice == [tree |-> NoTree, text |-> Empty, done |-> FALSE, out |-> Val(Zero)]

NoProc == [op |-> "none", id |-> Empty, d |-> NoDetails, allow |-> FALSE,
           held |-> <<>>, wrote |-> FALSE, appended |-> <<>>]

\* no window has been built
NoWindow ==
    /\ cache = <<>> /\ budgets = NoBudgets /\ yearText = Tous
    /\ today = [year |-> 0, month |-> 0] /\ pivot = NoPivot

Init == /\ exists \in BOOLEAN
        /\ rows \in InitFiles
        /\ ~exists => rows = <<>>
        /\ nextId = 0
        /\ pc = "idle"
        /\ call = NoCall
        /\ priceCall = NoPrice
        /\ optFile = File("absent", <<>>)
        /\ catCall = NoCatCall
        /\ NoWindow
        /\ proc = NoProc

\* a call returns with outcome out (the bounds cap the file and the ids)
Returns(op, id, d, allow, out, table) ==
    /\ out.n <= MaxMint
    /\ Len(out.rows) <= MaxRows
    /\ exists' = out.exists
    /\ rows' = out.rows
    /\ nextId' = out.n
    /\ pc' = "returned"
    /\ call' = [op |-> op, id |-> id, d |-> d, allow |-> allow,
                res |-> out.res, wrote |-> out.wrote, table |-> table,
                preExists |-> exists, preRows |-> rows, preN |-> nextId]
    /\ UNCHANGED <<priceCall, optFile, catCall, pivotVars, proc>>

Migrate ==
    /\ pc = "idle"
    /\ LET m == MigrateExpenseIds(exists, rows, nextId)
       IN Returns("migrate", Empty, NoDetails, FALSE,
                  Outcome(m.exists, m.rows, m.n, "ok", m.wrote), <<>>)

Add ==
    /\ pc = "idle"
    /\ \E d \in InputDetails, allow \in BOOLEAN :
          Returns("add", Empty, d, allow,
                  AddExpense(exists, rows, nextId, d, allow), <<>>)

Update ==
    /\ pc = "idle"
    /\ \E id \in IdArgs(rows), d \in InputDetails, allow \in BOOLEAN :
          Returns("update", id, d, allow,
                  UpdateExpense(exists, rows, nextId, id, d, allow), <<>>)

Delete ==
    /\ pc = "idle"
    /\ \E id \in IdArgs(rows) :
          Returns("delete", id, NoDetails, FALSE,
                  DeleteExpense(exists, rows, nextId, id), <<>>)

ReloadWindow ==
    /\ pc = "idle"
    /\ LET r == Reload(exists, rows, nextId)
       IN Returns("reload", Empty, NoDetails, FALSE, r.out, r.table)

\* the caller has dealt with the outcome (a message box, a reload of the
\* table) and is ready for the next call
Acknowledge ==
    /\ pc = "returned"
    /\ pc' = "idle"
    /\ call' = NoCall
    /\ UNCHANGED <<exists, rows, nextId, priceCall, optFile, catCall, pivotVars, proc>>

Next == Migrate \/ Add \/ Update \/ Delete \/ ReloadWindow \/ Acknowledge

Spec == Init /\ [][Next]_vars

\* ------------------------------------------------------ the price parser
\* parse_price_to_float applied to one text: the text is chosen at the
\* start, the call gives its outcome.
NoStore ==
    /\ exists = FALSE /\ rows = <<>> /\ nextId = 0
    /\ pc = "idle" /\ call = NoCall

PriceInit ==
    /\ NoStore
    /\ optFile = File("absent", <<>>) /\ catCall = NoCatCall
    /\ NoWindow /\ proc = NoProc
    /\ \E in \in PriceInputs :
          priceCall = [tree |-> in.tree, text |-> in.text, done |-> FALSE,
                       out |-> Val(Zero)]

ParsePrice ==
    /\ ~priceCall.done
    /\ priceCall' = [priceCall EXCEPT !.done = TRUE, !.out = ParsePriceToFloat(priceCall.text)]
    /\ UNCHANGED <<storeVars, optFile, catCall, pivotVars, proc>>

PriceNext == ParsePrice

PriceSpec == PriceInit /\ [][PriceNext]_vars

\* ------------------------------------------------- the category registry
\* Bounds: the items of the list a side-file first holds, and the
\* categories a file may come to hold.
MaxItems == 2
MaxCats == 10

NameLower == <<"a">>
NameUpper == <<"A">>
NameLowerPadded == <<" ", "a">>
NameUpperPadded == <<"A", " ">>
NameB == <<"b">>
NameC == <<"c">>
ColorShort == <<"#", "a", "b", "c">>
ColorShortPadded == <<" ", "#", "a", "b", "c">>
ColorWord == <<"r", "e", "d">>

\* The items a side-file may hold before the program first touches it:
\* objects with a plain, capital, padded, blank or built-in name and a
\* valid, padded, invalid or blank color, strings, and a number.
InitItemShapes ==
    { Item("obj", NameLower, ColorShort),
      Item("obj", NameUpper, Empty),
      Item("obj", NameLowerPadded, ColorWord),
      Item("obj", NameB, ColorShortPadded),
      Item("obj", Blank, ColorShort),
      Item("obj", Loisir, Empty),
      Item("obj", Loisir, ColorShort),
      Item("str", NameLower, Empty),
      Item("str", Loisir, Empty),
      Item("str", Blank, Empty),
      Item("other", Empty, Empty) }

InitOptFiles ==
    {File(k, <<>>) : k \in {"absent", "corrupt", "value", "nolist"}}
      \cup {File("object", items) :
               items \in UNION {[1..k -> InitItemShapes] : k \in 0..MaxItems}}

\* the names a caller adds or removes
NameArgs == {NameLower, NameUpperPadded, NameB, NameC, Loisir, Blank}

CatInit ==
    /\ NoStore
    /\ priceCall = NoPrice
    /\ optFile \in InitOptFiles
    /\ catCall = NoCatCall
    /\ NoWindow /\ proc = NoProc

\* a call on the categories returns with outcome out
CatReturns(op, arg, out) ==
    /\ Len(out.file.items) <= MaxCats
    /\ optFile' = out.file
    /\ catCall' = [op |-> op, arg |-> arg, res |-> out.res,
                   entries |-> out.entries, preFile |-> optFile]
    /\ UNCHANGED <<storeVars, priceCall, pivotVars, proc>>

LoadCategories ==
    /\ catCall = NoCatCall
    /\ LET l == LoadCategoryOptions(optFile)
       IN CatReturns("load", Empty, CatOutcome(l.file, "ok", l.entries))

AddCategoryCall ==
    /\ catCall = NoCatCall
    /\ \E arg \in NameArgs : CatReturns("add", arg, AddCategory(optFile, arg))

RemoveCategoryCall ==
    /\ catCall = NoCatCall
    /\ \E arg \in NameArgs : CatReturns("remove", arg, RemoveCategory(optFile, arg))

\* the caller has dealt with the outcome and is ready for the next call
CatAcknowledge ==
    /\ catCall # NoCatCall
    /\ catCall' = NoCatCall
    /\ UNCHANGED <<storeVars, priceCall, optFile, pivotVars, proc>>

CatNext == LoadCategories \/ AddCategoryCall \/ RemoveCategoryCall \/ CatAcknowledge

CatSpec == CatInit /\ [][CatNext]_vars

\* ---------------------------------------------------- the window's pivot
\* The window after its construction (categories loaded, budgets loaded,
\* a first reload done), then the handlers that refill the pivot.
\* Bound: the rows of the expense file.
MaxExpenses == 2

\* the current year, and the one before
ThisYear == 2025
LastYear == 2024

\* QDate.currentDate(): February or December of the current year
Todays == {[year |-> ThisYear, month |-> 2], [year |-> ThisYear, month |-> 12]}

DateText(d, m, y) == TwoDigits(d) \o <<"/">> \o TwoDigits(m) \o <<"/">> \o IntText(y)

Amount(k) == Rat(k, 1)

\* The expenses a file may hold, <<name, date, price, category,
\* description>>: spending in January, February and March of the current
\* year, in the year before, on a day that does not exist, with a price
\* that does not evaluate, and in a category the registry does not hold.
PivotDetails ==
    << <<NameA, DateText(15, 1, ThisYear), <<"1", "0">>, NameLower, Empty>>,
       <<NameA, DateText(15, 2, ThisYear), <<"2", "0">>, NameLower, Empty>>,
       <<NameA, DateText(15, 1, ThisYear), <<"3">>, NameB, Empty>>,
       <<NameA, DateText(15, 3, ThisYear), <<"2", ".", "5">>, NameLower, Empty>>,
       <<NameA, DateText(29, 2, LastYear), <<"4">>, NameB, Empty>>,
       <<NameA, DateText(31, 2, ThisYear), <<"7">>, NameLower, Empty>>,
       <<NameA, DateText(15, 1, ThisYear), PriceByZero, NameLower, Empty>>,
       <<NameA, DateText(15, 1, ThisYear), PriceOne, NameC, DescE>> >>

\* the files: up to MaxExpenses of these expenses, as rows in migrated
\* form
PivotFiles ==
    {[i \in 1..Cardinality(S) |-> <<Mint(i)>> \o PivotDetails[Sorted(S)[i]]] :
        S \in {T \in SUBSET (1..Len(PivotDetails)) : Cardinality(T) <= MaxExpenses}}

\* the categories' side-file of the window: "a" and "b"
PivotOptFile ==
    File("object", <<Item("obj", NameLower, Empty), Item("obj", NameB, Empty)>>)

\* set(self._categories) (window.py 385-388)
WindowCategories(f) ==
    LET entries == LoadCategoryOptions(f).entries
    IN {entries[i].name : i \in 1..Len(entries)}

\* a dict with one key
Only(k, v) == [x \in {k} |-> v]

\* What BudgetDialog.budgets() returns (budget_dialog.py 105-120), month
\* key -> category -> amount, for the cells filled in: nothing; January
\* a = 15; February a = 0; January a = 15 and b = 5 with February a = 20.
DialogBudgets ==
    { NoBudgets,
      Only(TwoDigits(1), Only(NameLower, Amount(15))),
      Only(TwoDigits(2), Only(NameLower, Zero)),
      [k \in {TwoDigits(1), TwoDigits(2)} |->
          IF k = TwoDigits(1)
          THEN [c \in {NameLower, NameB} |->
                   IF c = NameLower THEN Amount(15) ELSE Amount(5)]
          ELSE Only(NameLower, Amount(20))] }

\* what load_budgets gave at construction (window.py 389): nothing, or
\* January a = 15 for the current year
InitBudgets ==
    { NoBudgets,
      Only(IntText(ThisYear), Only(TwoDigits(1), Only(NameLower, Amount(15)))) }

\* the years of the expenses' dates (window.py 1053-1057)
CacheYears(es) ==
    {QDateFromString(es[i].date).year :
        i \in {j \in 1..Len(es) : QDateFromString(es[j].date).valid}}

\* the items of year_combo after a reload (window.py 1059-1068); the
\* default year is the year of the construction
YearItems(es, current) ==
    {Tous} \cup {IntText(y) : y \in CacheYears(es) \cup {current.year}}

PivotInit ==
    /\ exists = TRUE /\ rows \in PivotFiles
    /\ nextId = 0 /\ pc = "idle" /\ call = NoCall
    /\ priceCall = NoPrice
    /\ optFile = PivotOptFile /\ catCall = NoCatCall
    /\ proc = NoProc
    /\ today \in Todays
    /\ budgets \in InitBudgets
    /\ cache = ReadExpenses(exists, rows)
    /\ yearText = IntText(today.year)
    /\ pivot = UpdatePivotTotals(WindowCategories(optFile), cache, budgets,
                                 yearText, today)

\* _on_year_month_changed: another item of year_combo is chosen
SelectYear ==
    /\ \E text \in YearItems(cache, today) :
          /\ yearText' = text
          /\ pivot' = UpdatePivotTotals(WindowCategories(optFile), cache, budgets,
                                        text, today)
    /\ UNCHANGED <<storeVars, priceCall, optFile, catCall, proc, cache, budgets, today>>

\* _selected_year_or_current (window.py 539-546)
SelectedYearOrCurrent(text, current) ==
    IF SelectedYear(text) # NoYear THEN SelectedYear(text) ELSE current.year

\* _on_budget_clicked, the dialog accepted: the budgets of the selected
\* year (of the current year when all years are selected) are replaced
EditBudgets ==
    /\ \E result \in DialogBudgets :
          LET year_key == IntText(SelectedYearOrCurrent(yearText, today))
              edited == [k \in DOMAIN budgets \cup {year_key} |->
                            IF k = year_key THEN result ELSE budgets[k]]
          IN /\ budgets' = edited
             /\ pivot' = UpdatePivotTotals(WindowCategories(optFile), cache, edited,
                                           yearText, today)
    /\ UNCHANGED <<storeVars, priceCall, optFile, catCall, proc, cache, yearText, today>>

\* reload, as the window keeps it: the file is migrated and read, the
\* year of the construction is selected again and the pivot refilled
ReloadPivot ==
    /\ LET m == MigrateExpenseIds(exists, rows, nextId)
           es == ReadExpenses(m.exists, m.rows)
           text == IntText(today.year)
       IN /\ exists' = m.exists /\ rows' = m.rows /\ nextId' = m.n
          /\ cache' = es
          /\ yearText' = text
          /\ pivot' = UpdatePivotTotals(WindowCategories(optFile), es, budgets,
                                        text, today)
    /\ UNCHANGED <<pc, call, priceCall, optFile, catCall, proc, budgets, today>>

PivotNext == SelectYear \/ EditBudgets \/ ReloadPivot

PivotSpec == PivotInit /\ [][PivotNext]_vars

\* --------------------------------------------------- reading the file
\* read_expenses on its own, on the files a user may hand to the program:
\* the rows of InitRowShapes, rows with a blank name, date or category, and
\* a legacy row of 4 columns.
ReadRowShapes ==
    InitRowShapes \cup
    { <<IdX, Blank, DateD, PriceOne, CatC, Empty>>,
      <<NameA, Blank, PriceOne, CatC, DescE>>,
      <<IdX, NameA, DateD, PriceOne, Empty, DescE>>,
      <<NameA, DateD, PriceOne, CatC>> }

ReadFiles == UNION {[1..k -> ReadRowShapes] : k \in 0..MaxInitRows}

ReadInit ==
    /\ exists \in BOOLEAN
    /\ rows \in ReadFiles
    /\ ~exists => rows = <<>>
    /\ nextId = 0 /\ pc = "idle" /\ call = NoCall
    /\ priceCall = NoPrice
    /\ optFile = File("absent", <<>>) /\ catCall = NoCatCall
    /\ NoWindow
    /\ proc = NoProc

\* expenses = read_expenses(csv_path): the file is opened for reading only
ReadFile ==
    /\ pc = "idle"
    /\ cache' = ReadExpenses(exists, rows)
    /\ pc' = "returned"
    /\ call' = [NoCall EXCEPT !.op = "read", !.res = "ok",
                              !.preExists = exists, !.preRows = rows,
                              !.preN = nextId]
    /\ UNCHANGED <<exists, rows, nextId, priceCall, optFile, catCall,
                   budgets, yearText, today, pivot, proc>>

ReadNext == ReadFile

ReadSpec == ReadInit /\ [][ReadNext]_vars

\* ------------------------------------------- a store filled from empty
\* The store starts empty (no file, or a file without rows) and is only
\* changed by add_expense, update_expense and delete_expense, every call
\* with allow_duplicates=False.
StrictDetails == InputDetails \cup {<<NameA, DateD, PriceOne, CatC, DescE>>}

StrictInit ==
    /\ exists \in BOOLEAN
    /\ rows = <<>>
    /\ nextId = 0 /\ pc = "idle" /\ call = NoCall
    /\ priceCall = NoPrice
    /\ optFile = File("absent", <<>>) /\ catCall = NoCatCall
    /\ NoWindow
    /\ proc = NoProc

StrictAdd ==
    /\ pc = "idle"
    /\ \E d \in StrictDetails :
          Returns("add", Empty, d, FALSE,
                  AddExpense(exists, rows, nextId, d, FALSE), <<>>)

StrictUpdate ==
    /\ pc = "idle"
    /\ \E id \in IdArgs(rows), d \in StrictDetails :
          Returns("update", id, d, FALSE,
                  UpdateExpense(exists, rows, nextId, id, d, FALSE), <<>>)

StrictNext == StrictAdd \/ StrictUpdate \/ Delete \/ Acknowledge

StrictSpec == StrictInit /\ [][StrictNext]_vars

\* ------------------------------------------------ another writer's row
\* update_expense and delete_expense read the rows of the file into a
\* list, work on the list and write it back over the file
\* (logic.py 377-400, 416-433).  Between the read and the write another
\* writer (another instance of the program, an editor) may append a row.
\* Bound: the rows the other writer appends during one call.
MaxAppends == 1

IdW == <<"w">>

\* what the other writer appends: a new expense, or one with the details
\* the first input carries
ExternalRows ==
    { <<IdW, NameA, DateD, PriceOne, CatC, DescE>>,
      <<IdW, NameA, DateD, PriceOne, CatC, Empty>> }

\* (a writer that keeps the rows the file has gained since the read)
WrittenRowsMerged(held, file) ==
    IF Len(file) > Len(held)
    THEN held \o SubSeq(file, Len(file), Len(file))
    ELSE held

\* csv_path.open(mode="w") then writer.writerows(rows): the file holds the
\* rows of the list, whatever it held before (logic.py 398-400, 431-433)
WrittenRows(held, file) == held

RaceInit ==
    /\ exists = TRUE
    /\ rows \in InitFiles
    /\ nextId = 0 /\ pc = "idle" /\ call = NoCall
    /\ priceCall = NoPrice
    /\ optFile = File("absent", <<>>) /\ catCall = NoCatCall
    /\ NoWindow
    /\ proc = NoProc

\* the call has migrated the file, checked its arguments and read the rows
Reads(op, id, d, allow, m) ==
    /\ m.n <= MaxMint
    /\ exists' = m.exists /\ rows' = m.rows /\ nextId' = m.n
    /\ pc' = "reading"
    /\ proc' = [op |-> op, id |-> id, d |-> d, allow |-> allow,
                held |-> m.rows, wrote |-> m.wrote, appended |-> <<>>]
    /\ UNCHANGED <<call, priceCall, optFile, catCall, pivotVars>>

\* update_expense up to its read of the rows (logic.py 346-379); a call
\* that raises before it returns here
BeginUpdate ==
    /\ pc = "idle"
    /\ \E id \in IdArgs(rows), d \in InputDetails, allow \in BOOLEAN :
          IF ~exists \/ Strip(id) = <<>> \/ ValidateFields(TrimAll(d)) # ""
          THEN Returns("update", id, d, allow,
                       UpdateExpense(exists, rows, nextId, id, d, allow), <<>>)
          ELSE Reads("update", id, d, allow, MigrateExpenseIds(exists, rows, nextId))

\* delete_expense up to its read of the rows (logic.py 406-418)
BeginDelete ==
    /\ pc = "idle"
    /\ \E id \in IdArgs(rows) :
          IF ~exists \/ Strip(id) = <<>>
          THEN Returns("delete", id, NoDetails, FALSE,
                       DeleteExpense(exists, rows, nextId, id), <<>>)
          ELSE Reads("delete", id, NoDetails, FALSE,
                     MigrateExpenseIds(exists, rows, nextId))

\* the other writer appends a row to the file, under an id of its own
\* that no row carries yet
ExternalAppend ==
    /\ pc = "reading"
    /\ Len(proc.appended) < MaxAppends
    /\ Len(rows) < MaxRows
    /\ \A i \in 1..Len(rows) : ~HasId(rows[i], IdW)
    /\ \E r \in ExternalRows :
          /\ rows' = Append(rows, r)
          /\ proc' = [proc EXCEPT !.appended = Append(@, r)]
    /\ UNCHANGED <<exists, nextId, pc, call, priceCall, optFile, catCall, pivotVars>>

\* update_expense from the rows it read (logic.py 381-400)
FinishUpdate ==
    /\ pc = "reading" /\ proc.op = "update"
    /\ LET eid == Strip(proc.id)
           details == TrimAll(proc.d)
           idx == FindId(proc.held, eid)
           done(rs, res) ==
               Returns("update", proc.id, proc.d, proc.allow,
                       Outcome(exists, rs, nextId, res, proc.wrote), <<>>)
       IN IF idx = 0 THEN done(rows, "RecordNotFound")
          ELSE IF ~proc.allow /\ UpdateFindsDuplicate(proc.held, idx, details)
          THEN done(rows, "DuplicateExpense")
          ELSE done(WrittenRows([proc.held EXCEPT ![idx] = ReplacementRow(eid, details)],
                                rows), "ok")

\* delete_expense from the rows it read (logic.py 420-433)
FinishDelete ==
    /\ pc = "reading" /\ proc.op = "delete"
    /\ LET idx == FindId(proc.held, Strip(proc.id))
           done(rs, res) ==
               Returns("delete", proc.id, NoDetails, FALSE,
                       Outcome(exists, rs, nextId, res, proc.wrote), <<>>)
       IN IF idx = 0 THEN done(rows, "RecordNotFound")
          ELSE done(WrittenRows(RemoveAt(proc.held, idx), rows), "ok")

\* the caller has dealt with the outcome
RaceAcknowledge ==
    /\ pc = "returned"
    /\ pc' = "idle"
    /\ call' = NoCall
    /\ proc' = NoProc
    /\ UNCHANGED <<exists, rows, nextId, priceCall, optFile, catCall, pivotVars>>

RaceNext ==
    \/ BeginUpdate \/ BeginDelete \/ ExternalAppend
    \/ FinishUpdate \/ FinishDelete \/ RaceAcknowledge

RaceSpec == RaceInit /\ [][RaceNext]_vars

\* ------------------------------------------- saving, then loading again
\* save_category_options with the names and colors a caller holds, then
\* load_category_options on the file it wrote.
\* Bound: the names saved.
MaxSaved == 2

\* the names a caller saves: trimmed, non-empty, "Loisir" from the
\* built-in set
SavedNames == {NameLower, NameUpper, NameB, Loisir}

\* colors.get(name): a valid color or a blank one
SavedColors == {ColorShort, Empty}

\* the lists saved: names distinct under casefold, each with its color
SaveInputs ==
    {es \in UNION {[1..k -> {Entry(n, c) : n \in SavedNames, c \in SavedColors}] :
                      k \in 0..MaxSaved} :
        \A i, j \in 1..Len(es) :
            i # j => Casefold(es[i].name) # Casefold(es[j].name)}

SaveInit ==
    /\ NoStore
    /\ priceCall = NoPrice
    /\ optFile = File("absent", <<>>)
    /\ catCall = NoCatCall
    /\ NoWindow /\ proc = NoProc

\* save_category_options(options_path, categories, colors)
SaveOptions ==
    /\ catCall = NoCatCall
    /\ \E es \in SaveInputs :
          CatReturns("save", es, CatOutcome(SaveCategoryOptions(es), "ok", <<>>))

\* load_category_options(options_path) after the save: arg keeps what was
\* saved
LoadSaved ==
    /\ catCall.op = "save"
    /\ LET l == LoadCategoryOptions(optFile)
       IN CatReturns("load", catCall.arg, CatOutcome(l.file, "ok", l.entries))

SaveNext == SaveOptions \/ LoadSaved \/ CatAcknowledge

SaveSpec == SaveInit /\ [][SaveNext]_vars

\* ================================================================ claims
\* The calls of the store's interface the claims speak of.
StoreOps == {"add", "update", "delete", "migrate"}

\* The first column of every row, "" for a blank line.
IdSeq(rs) == [i \in 1..Len(rs) |-> IF Len(rs[i]) >= 1 THEN rs[i][1] ELSE <<>>]

NonBlankRows(rs) == {i \in 1..Len(rs) : rs[i] # <<>>}

\* Migrated form as the claims word it: every non-blank row has exactly 6
\* columns, and the ids are non-empty and pairwise distinct.
MigratedForm(rs) ==
    /\ \A i \in NonBlankRows(rs) : Len(rs[i]) = 6 /\ rs[i][1] # <<>>
    /\ \A i, j \in NonBlankRows(rs) : i # j => rs[i][1] # rs[j][1]

\* The same with the ids compared once trimmed, as the code compares them.
TrimmedMigrated(rs) ==
    /\ \A i \in NonBlankRows(rs) : Len(rs[i]) = 6 /\ Strip(rs[i][1]) # <<>>
    /\ \A i, j \in NonBlankRows(rs) : i # j => Strip(rs[i][1]) # Strip(rs[j][1])

\* The fields of the call pass the validation: name, date and category are
\* not blank and the price parses.
ValidFields(d) ==
    /\ Strip(d[1]) # <<>> /\ Strip(d[2]) # <<>> /\ Strip(d[4]) # <<>>
    /\ ParsePriceToFloat(Strip(d[3])).err = ""

\* the five fields of a call, each trimmed
Trimmed(d) == <<Strip(d[1]), Strip(d[2]), Strip(d[3]), Strip(d[4]), Strip(d[5])>>

\* the rows of rs that carry exactly the id
Carrying(rs, id) == {i \in 1..Len(rs) : Len(rs[i]) >= 1 /\ rs[i][1] = id}

First(S) == CHOOSE i \in S : \A j \in S : i <= j

\* ------------------------------------------------------------------- C1
\* C1: after migrate_expense_ids on any file, and after add_expense,
\* update_expense, delete_expense or migrate_expense_ids on a file in
\* migrated form (an empty or absent file is one), the file is in migrated
\* form: every non-blank row has exactly 6 columns, the ids are non-empty
\* and pairwise distinct.
C1_MigratedFormKept ==
    (call.op \in StoreOps /\ (call.op = "migrate" \/ MigratedForm(call.preRows)))
        => MigratedForm(rows)

\* a migration that rewrote a file holding a repeated id and a row of more
\* than 6 columns
C1_Witness ==
    /\ call.op = "migrate" /\ call.wrote
    /\ Len(call.preRows) = 2
    /\ Len(call.preRows[1]) = 6 /\ Len(call.preRows[2]) = 7
    /\ call.preRows[1][1] = call.preRows[2][1]
    /\ Len(rows) = 2

\* ------------------------------------------------------------------- C2
\* C2 as claimed: on a file whose rows all have 6 columns and whose ids are
\* non-empty and pairwise distinct, migrate_expense_ids writes nothing and
\* leaves the rows as they are; and a second migration changes nothing.
C2_AsClaimed ==
    /\ (call.op = "migrate" /\ call.preExists
          /\ (\A i \in 1..Len(call.preRows) : Len(call.preRows[i]) = 6)
          /\ MigratedForm(call.preRows))
        => (~call.wrote /\ rows = call.preRows)
    /\ call.op = "migrate"
        => LET m == MigrateExpenseIds(exists, rows, nextId)
           IN ~m.wrote /\ m.rows = rows

\* C2 amended: on a file whose rows all have 6 columns and whose ids, once
\* trimmed, are non-empty and pairwise distinct, migrate_expense_ids writes
\* nothing, mints no id and leaves the rows as they are; and after any
\* migration a second migration writes nothing and changes nothing.
C2_NoOpOnMigrated ==
    /\ (call.op = "migrate" /\ call.preExists
          /\ (\A i \in 1..Len(call.preRows) : Len(call.preRows[i]) = 6)
          /\ TrimmedMigrated(call.preRows))
        => (~call.wrote /\ rows = call.preRows /\ nextId = call.preN)
    /\ call.op = "migrate"
        => LET m == MigrateExpenseIds(exists, rows, nextId)
           IN ~m.wrote /\ m.rows = rows /\ m.n = nextId

\* a migration of a two-row file of the amended form, one id being padded
C2_Witness ==
    /\ call.op = "migrate" /\ call.preExists
    /\ Len(call.preRows) = 2
    /\ \A i \in 1..2 : Len(call.preRows[i]) = 6
    /\ TrimmedMigrated(call.preRows)
    /\ call.preRows[1][1] = IdXPadded

\* ------------------------------------------------------------------- C3
\* C3: one migrate_expense_ids on a file whose rows all have 5 columns
\* leaves as many rows, in the same order, each made of an id minted by
\* this call followed by the row's five fields unchanged; the ids differ.
C3_LegacyConverted ==
    (call.op = "migrate" /\ call.preExists
       /\ \A i \in 1..Len(call.preRows) : Len(call.preRows[i]) = 5)
    => /\ Len(rows) = Len(call.preRows)
       /\ \A i \in 1..Len(rows) :
            /\ Len(rows[i]) = 6
            /\ Details(rows[i]) = call.preRows[i]
            /\ rows[i][1] \in {Mint(k) : k \in (call.preN + 1)..nextId}
       /\ \A i, j \in 1..Len(rows) : i # j => rows[i][1] # rows[j][1]

\* a migration of two different legacy rows, one with a padded name
C3_Witness ==
    /\ call.op = "migrate" /\ call.preExists
    /\ Len(call.preRows) = 2
    /\ \A i \in 1..2 : Len(call.preRows[i]) = 5
    /\ call.preRows[1][1] = NameA /\ call.preRows[2][1] = NameAPadded
    /\ Len(rows) = 2

\* ------------------------------------------------------------------- C4
\* C4: on a migrated file, a call never changes the id of a row that stays:
\* a successful add_expense appends one row with an id no row had, a
\* successful delete_expense removes one row, and every other call
\* (update_expense included) leaves each row's id where it was.
C4_IdsStable ==
    (call.op \in StoreOps /\ TrimmedMigrated(call.preRows))
    => LET before == IdSeq(call.preRows)
           after == IdSeq(rows)
       IN IF call.op = "add" /\ call.res = "ok"
          THEN /\ Len(after) = Len(before) + 1
               /\ SubSeq(after, 1, Len(before)) = before
               /\ \A i \in 1..Len(before) : before[i] # after[Len(after)]
          ELSE IF call.op = "delete" /\ call.res = "ok"
          THEN \E k \in 1..Len(before) : after = RemoveAt(before, k)
          ELSE after = before

\* an update that replaced the fields of the second of three rows
C4_Witness ==
    /\ call.op = "update" /\ call.res = "ok"
    /\ TrimmedMigrated(call.preRows)
    /\ Len(rows) = 3
    /\ rows[2] # call.preRows[2]
    /\ rows[2][1] = call.preRows[2][1]

\* ------------------------------------------------------------------- C5
\* C5: when a row of the (migrated) file already holds the trimmed fields
\* of a valid add_expense, the call fails with DuplicateExpense and leaves
\* the file as it was if allow_duplicates is false, and if it is true
\* appends a row with the same fields and an id no row had.  When no row
\* holds textually the same fields, the call succeeds, also when a row
\* differs only by a price text of equal value.
C5_DuplicateAdd ==
    (call.op = "add" /\ ValidFields(call.d) /\ TrimmedMigrated(call.preRows))
    => LET details == Trimmed(call.d)
           same == {i \in NonBlankRows(call.preRows) :
                       Details(call.preRows[i]) = details}
           n == Len(call.preRows)
       IN IF same # {} /\ ~call.allow
          THEN call.res = "DuplicateExpense" /\ rows = call.preRows
          ELSE /\ call.res = "ok"
               /\ Len(rows) = n + 1
               /\ SubSeq(rows, 1, n) = call.preRows
               /\ Len(rows[n + 1]) = 6
               /\ Details(rows[n + 1]) = details
               /\ rows[n + 1][1] # <<>>
               /\ \A i \in NonBlankRows(call.preRows) :
                     call.preRows[i][1] # rows[n + 1][1]

\* the same fields stored twice, under two ids, by allow_duplicates
C5_Witness ==
    /\ call.op = "add" /\ call.allow /\ call.res = "ok"
    /\ Len(call.preRows) = 2 /\ Len(rows) = 3
    /\ TrimmedMigrated(call.preRows)
    /\ Len(rows[2]) = 6
    /\ Details(rows[2]) = Details(rows[3])
    /\ rows[2][1] # rows[3][1]

\* ------------------------------------------------------------------- C6
\* C6 as claimed: delete_expense with an id that a row of a migrated file
\* carries succeeds and removes the first row carrying it, every other row
\* staying as it was and in the same order.
C6_AsClaimed ==
    (call.op = "delete" /\ call.preExists /\ TrimmedMigrated(call.preRows)
       /\ Carrying(call.preRows, call.id) # {})
    => /\ call.res = "ok"
       /\ rows = RemoveAt(call.preRows, First(Carrying(call.preRows, call.id)))

\* ------------------------------------------------------------------- C7
\* C7 as claimed: update_expense (with valid fields) and delete_expense on
\* an existing migrated file, with an id no row carries, fail with
\* RecordNotFound and leave the rows as they were.  (The error a blank id
\* raises is counted here as RecordNotFound.)
C7_AsClaimed ==
    (call.op \in {"update", "delete"} /\ call.preExists
       /\ TrimmedMigrated(call.preRows)
       /\ (call.op = "update" => ValidFields(call.d))
       /\ Carrying(call.preRows, call.id) = {})
    => (call.res \in {"RecordNotFound", "InvalidId"} /\ rows = call.preRows)

\* C7 amended: update_expense (with valid fields) and delete_expense on an
\* existing migrated file, with an id that, once trimmed, no row carries,
\* fail and leave the rows (ids, fields, order, count) as they were: with
\* RecordNotFound, or with the invalid-id error when the id is blank.
C7_UnknownId ==
    (call.op \in {"update", "delete"} /\ call.preExists
       /\ TrimmedMigrated(call.preRows)
       /\ (call.op = "update" => ValidFields(call.d))
       /\ Carrying(call.preRows, Strip(call.id)) = {})
    => /\ call.res = (IF Strip(call.id) = <<>> THEN "InvalidId"
                                               ELSE "RecordNotFound")
       /\ rows = call.preRows

\* an update refused on a two-row file for an id no row carries
C7_Witness ==
    /\ call.op = "update" /\ call.res = "RecordNotFound"
    /\ call.id = IdUnknown
    /\ ValidFields(call.d)
    /\ TrimmedMigrated(call.preRows)
    /\ Len(call.preRows) = 2 /\ rows = call.preRows

C10_PriceTextKept ==
    /\ (call.op = "add" /\ call.res = "ok")
         => rows[Len(rows)][4] = Strip(call.d[3])
    /\ (call.op = "update" /\ call.res = "ok")
         => \E i \in 1..Len(rows) :
               /\ Len(rows[i]) = 6 /\ rows[i][1] = Strip(call.id)
               /\ rows[i][4] = Strip(call.d[3])
    /\ (call.op # "none" /\ TrimmedMigrated(call.preRows))
         => \A i \in NonBlankRows(call.preRows) :
               \/ /\ call.op \in {"update", "delete"}
                  /\ call.res = "ok"
                  /\ call.preRows[i][1] = Strip(call.id)
               \/ \E j \in NonBlankRows(rows) :
                     /\ rows[j][1] = call.preRows[i][1]
                     /\ rows[j][4] = call.preRows[i][4]

\* a reload that displays 1.00 for a row whose stored price stays "2-1"
C10_Witness ==
    /\ call.op = "reload"
    /\ rows = call.preRows
    /\ \E i \in 1..Len(rows), k \in 1..Len(call.table) :
          /\ Len(rows[i]) = 6
          /\ rows[i][4] = PriceTwoMinusOne
          /\ call.table[k].id = rows[i][1]
          /\ call.table[k].raw = PriceTwoMinusOne
          /\ call.table[k].display = <<"1", ".", "0", "0">>

\* ------------------------------------------------------------------ C11
\* The failure the validation of the five fields ends in: MissingField for
\* a blank name, date or category, InvalidPrice for a price text that does
\* not parse, "" when the fields pass (or the price divides by zero).
MissingOne(d) == Strip(d[1]) = <<>> \/ Strip(d[2]) = <<>> \/ Strip(d[4]) = <<>>

Unparsable(d) == ParsePriceToFloat(Strip(d[3])).err = "ValueError"

ExpectedFailure(d) == IF MissingOne(d) THEN "MissingField"
                      ELSE IF Unparsable(d) THEN "InvalidPrice" ELSE ""

\* add_expense, or update_expense on an existing file with a non-blank id,
\* given fields that do not pass
ValidationCase ==
    /\ call.op \in {"add", "update"}
    /\ ExpectedFailure(call.d) # ""
    /\ call.op = "update" => (call.preExists /\ Strip(call.id) # <<>>)

\* C11 as claimed: add_expense and update_expense given a blank name, date
\* or category fail with MissingField, given an unparsable price with
\* InvalidPrice, and the file's rows are as they were before the call.
C11_AsClaimed ==
    ValidationCase
    => /\ call.res = ExpectedFailure(call.d)
       /\ exists = call.preExists /\ rows = call.preRows

\* C11 amended: the failures are as claimed; add_expense leaves the file
\* untouched, and update_expense leaves the rows as the migration it runs
\* first writes them, which on a migrated file is as they were.
C11_ValidationFailure ==
    ValidationCase
    => /\ call.res = ExpectedFailure(call.d)
       /\ exists = call.preExists
       /\ call.op = "add" => rows = call.preRows
       /\ call.op = "update" =>
            rows = MigrateExpenseIds(call.preExists, call.preRows, call.preN).rows
       /\ TrimmedMigrated(call.preRows) => rows = call.preRows

\* an update with an unparsable price refused on a file of two rows
C11_Witness ==
    /\ call.op = "update" /\ call.res = "InvalidPrice"
    /\ Strip(call.id) # <<>>
    /\ Len(call.preRows) = 2 /\ TrimmedMigrated(call.preRows)
    /\ rows = call.preRows

\* ------------------------------------------------------------------ C12
\* A tree built from numeric literals, signs and + - * / only.
RECURSIVE Pure(_)
Pure(t) == IF t[1] = "lit" THEN IsNumberText(t[2])
           ELSE IF t[1] = "un" THEN Pure(t[3])
           ELSE Pure(t[3]) /\ Pure(t[4])

\* The value of a pure tree, evaluated as the tree is built (def is FALSE
\* when a divisor is zero).
RECURSIVE TreeValue(_)
TreeValue(t) ==
    IF t[1] = "lit" THEN [def |-> TRUE, val |-> NumberVal(t[2])]
    ELSE IF t[1] = "un"
    THEN LET v == TreeValue(t[3])
         IN [def |-> v.def, val |-> IF t[2] = "-" THEN RatNeg(v.val) ELSE v.val]
    ELSE LET l == TreeValue(t[3])
             r == TreeValue(t[4])
         IN IF ~l.def \/ ~r.def \/ (t[2] = "/" /\ r.val.n = 0)
            THEN [def |-> FALSE, val |-> Zero]
            ELSE [def |-> TRUE,
                  val |-> IF t[2] = "+" THEN RatAdd(l.val, r.val)
                          ELSE IF t[2] = "-" THEN RatSub(l.val, r.val)
                          ELSE IF t[2] = "*" THEN RatMul(l.val, r.val)
                          ELSE RatDiv(l.val, r.val)]

\* C12: for the usual spelling of a tree of numeric literals, signs and
\* + - * / (parentheses only where precedence and left-to-right grouping
\* ask for them), parse_price_to_float returns the value of the tree;
\* "4+5*6" is 34, "(4+5)*6" is 54 and "10/4" is 2.5.
C12_StandardEvaluation ==
    priceCall.done
    => /\ (priceCall.tree # NoTree /\ Pure(priceCall.tree)
             /\ TreeValue(priceCall.tree).def)
          => priceCall.out = Val(TreeValue(priceCall.tree).val)
       /\ priceCall.text = PriceSum => priceCall.out = Val(Rat(34, 1))
       /\ priceCall.text = PriceParen => priceCall.out = Val(Rat(54, 1))
       /\ priceCall.text = PriceQuotient => priceCall.out = Val(Rat(5, 2))

\* "2-3*2" has been parsed: the product is taken first, the result is -4
C12_Witness ==
    /\ priceCall.done
    /\ priceCall.tree = <<"bin", "-", <<"lit", <<"2">> >>,
                          <<"bin", "*", <<"lit", <<"3">> >>, <<"lit", <<"2">> >> >> >>
    /\ priceCall.text = <<"2", "-", "3", "*", "2">>
    /\ priceCall.out = Val(Rat(-4, 1))

\* ------------------------------------------------------------------ C13
\* The written-out texts that hold a construct other than numeric
\* literals, signs, + - * / and parentheses.
OtherConstructTexts ==
    {PriceName, PriceCall, PriceNumberCall, PriceTuple, PricePower, PriceFloorDiv}

\* C13 as claimed: a text holding a name, a keyword constant, a call or
\* another operator never yields a number (any failure is counted here as
\* the claimed InvalidPrice).
C13_AsClaimed ==
    (priceCall.done
       /\ \/ priceCall.tree # NoTree /\ ~Pure(priceCall.tree)
          \/ priceCall.text \in OtherConstructTexts)
    => priceCall.out.err # ""

\* ------------------------------------------------------------------ C14
\* C14 as claimed: parse_price_to_float returns a number or fails with
\* InvalidPrice (the ValueError it raises), whatever the text.
C14_AsClaimed ==
    priceCall.done => priceCall.out.err \in {"", "ValueError"}

\* ------------------------------------------------------------------ C15
\* C15: parse_price_to_float returns 0 for an empty or blank text; it
\* reads a comma as a decimal point and ignores spaces, so a text parses
\* as the same text with its commas turned to points and as the same text
\* without its spaces do; "12,5" and "12.5" both give 12.5.
C15_BlankCommaSpaces ==
    priceCall.done
    => /\ Strip(priceCall.text) = <<>> => priceCall.out = Val(Zero)
       /\ priceCall.out = ParsePriceToFloat(Replace(priceCall.text, ",", "."))
       /\ priceCall.out = ParsePriceToFloat(Remove(priceCall.text, " "))
       /\ priceCall.text \in {PriceComma, PriceDot}
            => priceCall.out = Val(Rat(25, 2))
       /\ priceCall.text = PriceCommaPadded => priceCall.out = Val(Rat(3, 2))
       /\ priceCall.text = PriceSpaced => priceCall.out = Val(Rat(12, 1))

\* " 1,5 " has been parsed to 1.5
C15_Witness ==
    /\ priceCall.done
    /\ priceCall.text = PriceCommaPadded
    /\ priceCall.out = Val(Rat(3, 2))

\* ============================================= claims on the categories
CatOps == {"load", "add", "remove"}

\* the names a file of kind "object" holds, in order
FileNames(f) == [i \in 1..Len(f.items) |-> f.items[i].name]

\* the names of ns are pairwise distinct whatever their case
CaseDistinct(ns) ==
    \A i, j \in 1..Len(ns) : i # j => Casefold(ns[i]) # Casefold(ns[j])

\* ------------------------------------------------------------------ C16
\* C16 as claimed: after a load_category_options, add_category or
\* remove_category call that succeeded, the list returned and the list in
\* the side-file are both non-empty.
C16_AsClaimed ==
    (catCall.op \in CatOps /\ catCall.res = "ok")
    => /\ catCall.entries # <<>>
       /\ optFile.kind = "object" /\ optFile.items # <<>>

\* ------------------------------------------------------------------ C17
\* The items of a file's list that name a category: strings in a legacy
\* list, objects otherwise, with a name that is not blank.
Naming(f) ==
    {i \in 1..Len(f.items) :
        /\ IsLegacyList(f) \/ f.items[i].t = "obj"
        /\ Strip(f.items[i].name) # <<>>}

\* those of them whose name no earlier one has, whatever the case
FirstOccurrences(f) ==
    {i \in Naming(f) :
        \A j \in Naming(f) :
            j < i => Casefold(Strip(f.items[j].name)) # Casefold(Strip(f.items[i].name))}

\* C17: after a load_category_options, add_category or remove_category
\* call (one that got as far as loading the file), the names returned and
\* the names in the side-file are pairwise distinct whatever their case;
\* a load of a list that names categories returns the first occurrence of
\* each name, trimmed, in the stored order.
C17_NamesDistinct ==
    (catCall.op \in CatOps /\ catCall.res # "EmptyName")
    => /\ CaseDistinct(NamesOf(catCall.entries))
       /\ optFile.kind = "object" /\ CaseDistinct(FileNames(optFile))
       /\ (catCall.op = "load" /\ catCall.preFile.kind = "object"
             /\ Naming(catCall.preFile) # {})
          => LET kept == Sorted(FirstOccurrences(catCall.preFile))
             IN NamesOf(catCall.entries)
                  = [k \in 1..Len(kept) |-> Strip(catCall.preFile.items[kept[k]].name)]

\* a load of the list "a", "A" has kept "a" only
C17_Witness ==
    /\ catCall.op = "load"
    /\ FileNames(catCall.preFile) = <<NameLower, NameUpper>>
    /\ NamesOf(catCall.entries) = <<NameLower>>
    /\ FileNames(optFile) = <<NameLower>>

\* ------------------------------------------------------------------ C18
\* C18: after a load_category_options, whatever the file was, a second
\* load leaves the file as the first one wrote it and returns the same
\* names and colors, and save_category_options of what the load returned
\* writes the same file again.
C18_LoadIdempotent ==
    catCall.op = "load"
    => /\ LoadCategoryOptions(optFile).file = optFile
       /\ LoadCategoryOptions(optFile).entries = catCall.entries
       /\ SaveCategoryOptions(catCall.entries) = optFile

\* a load has rewritten a list of two items, both kept
C18_Witness ==
    /\ catCall.op = "load"
    /\ catCall.preFile.kind = "object" /\ Len(catCall.preFile.items) = 2
    /\ optFile # catCall.preFile
    /\ Len(optFile.items) = 2
    /\ \E i \in 1..2 : optFile.items[i].color # <<>>

\* ------------------------------------------------------------------ C19
\* C19: a load of a side-file that is missing, is not JSON or holds a
\* JSON value that is not an object succeeds, returns the 8 built-in
\* categories in their order with their built-in colors and writes that
\* list to the side-file.
C19_DefaultsWritten ==
    (catCall.op = "load" /\ catCall.preFile.kind \in {"absent", "corrupt", "value"})
    => /\ catCall.res = "ok"
       /\ Len(catCall.entries) = 8 /\ Len(DEFAULT_CATEGORIES) = 8
       /\ \A i \in 1..8 :
            /\ catCall.entries[i].name = DEFAULT_CATEGORIES[i]
            /\ catCall.entries[i].color = DEFAULT_CATEGORY_COLORS[i]
       /\ optFile.kind = "object" /\ Len(optFile.items) = 8
       /\ \A i \in 1..8 :
            optFile.items[i]
              = Item("obj", DEFAULT_CATEGORIES[i], DEFAULT_CATEGORY_COLORS[i])

\* a load of a file that is not JSON has returned the built-in list
C19_Witness ==
    /\ catCall.op = "load" /\ catCall.preFile.kind = "corrupt"
    /\ Len(catCall.entries) = 8
    /\ catCall.entries[4] = Entry(Loisir, DEFAULT_CATEGORY_COLORS[4])

\* ------------------------------------------------------------------ C20
\* C20: add_category fails with EmptyName for a blank name, leaving the
\* file alone, and with DuplicateCategory when a stored name equals the
\* trimmed name whatever the case, adding no entry; otherwise it appends
\* the trimmed name after the stored names, each of which keeps its place
\* and its color.  The stored names and colors are those a load of the
\* file gives.
C20_AddCategory ==
    catCall.op = "add"
    => LET name == Strip(catCall.arg)
           stored == LoadCategoryOptions(catCall.preFile)
           n == Len(stored.entries)
       IN IF name = <<>>
          THEN catCall.res = "EmptyName" /\ optFile = catCall.preFile
          ELSE IF \E i \in 1..n : Casefold(stored.entries[i].name) = Casefold(name)
          THEN catCall.res = "DuplicateCategory" /\ optFile = stored.file
          ELSE /\ catCall.res = "ok"
               /\ optFile.kind = "object" /\ Len(optFile.items) = n + 1
               /\ optFile.items[n + 1].name = name
               /\ \A i \in 1..n :
                    /\ optFile.items[i].name = stored.entries[i].name
                    /\ optFile.items[i].color = stored.entries[i].color
               /\ NamesOf(catCall.entries) = Append(NamesOf(stored.entries), name)

\* "c" has been added to a file that held "a" and "b" with their colors
C20_Witness ==
    /\ catCall.op = "add" /\ catCall.res = "ok" /\ catCall.arg = NameC
    /\ catCall.preFile
         = File("object", <<Item("obj", NameLower, ColorShort),
                            Item("obj", NameB, ColorShort)>>)
    /\ optFile.items[1] = Item("obj", NameLower, ColorShort)
    /\ optFile.items[2] = Item("obj", NameB, ColorShort)
    /\ optFile.items[3].name = NameC

\* ------------------------------------------------------------------ C21
\* C21: remove_category fails with EmptyName for a blank name, leaving the
\* file alone, and with CategoryNotFound when no stored name equals the
\* trimmed name whatever the case, the stored names and colors staying as
\* they were; otherwise it removes that one name, and the file holds the
\* other stored names in their order, each with its stored color.  The
\* stored names and colors are those a load of the file gives.
C21_RemoveCategory ==
    catCall.op = "remove"
    => LET name == Strip(catCall.arg)
           stored == LoadCategoryOptions(catCall.preFile)
           n == Len(stored.entries)
           hit == {i \in 1..n : Casefold(stored.entries[i].name) = Casefold(name)}
           kept == Sorted((1..n) \ hit)
       IN IF name = <<>>
          THEN catCall.res = "EmptyName" /\ optFile = catCall.preFile
          ELSE IF hit = {}
          THEN /\ catCall.res = "CategoryNotFound"
               /\ LoadCategoryOptions(optFile).entries = stored.entries
          ELSE /\ catCall.res = "ok"
               /\ Cardinality(hit) = 1
               /\ optFile.kind = "object"
               /\ optFile.items
                    = [k \in 1..Len(kept) |->
                         Item("obj", stored.entries[kept[k]].name,
                              stored.entries[kept[k]].color)]
               /\ NamesOf(catCall.entries)
                    = [k \in 1..Len(kept) |-> stored.entries[kept[k]].name]

\* "A " has removed "a" from between "b" and "c", which keep their colors
C21_Witness ==
    /\ catCall.op = "remove" /\ catCall.res = "ok"
    /\ catCall.arg = NameUpperPadded
    /\ Len(catCall.preFile.items) = 3
    /\ catCall.preFile.items[2].name = NameLower
    /\ optFile.items = <<catCall.preFile.items[1], catCall.preFile.items[3]>>
    /\ optFile.items[1].color # <<>>

\* =================================================== claims on the pivot
\* The pivot is read against the window's cache, budgets and categories:
\* every handler that changes one of them refills it.

\* the expenses counted for a year (any year for NoYear), a month and a
\* category: those with a date of that year and month, that category and a
\* price that evaluates
CountedIn(year, m, cat) ==
    {i \in 1..Len(cache) :
        /\ QDateFromString(cache[i].date).valid
        /\ year # NoYear => QDateFromString(cache[i].date).year = year
        /\ QDateFromString(cache[i].date).month = m
        /\ cache[i].category = cat
        /\ PriceValue(cache[i].price).err = ""}

\* what they sum to
Spent(year, m, cat) ==
    SumOf([i \in 1..Len(cache) |-> PriceValue(cache[i].price).val],
          CountedIn(year, m, cat))

\* the budget map has an entry for (year, month, category)
HasBudget(year, m, cat) ==
    /\ year # NoYear
    /\ IntText(year) \in DOMAIN budgets
    /\ TwoDigits(m) \in DOMAIN budgets[IntText(year)]
    /\ cat \in DOMAIN budgets[IntText(year)][TwoDigits(m)]

BudgetOf(year, m, cat) == budgets[IntText(year)][TwoDigits(m)][cat]

\* the (month, category) pairs of months M and categories C with an entry
Budgeted(year, M, C) == {p \in M \X C : HasBudget(year, p[1], p[2])}

\* the sum of the entries of the pairs P, and the spending on them, month
\* by month
BudgetOver(year, P) ==
    SumOf([m \in 1..12 |-> SumOf([p \in P |-> BudgetOf(year, p[1], p[2])],
                                 {p \in P : p[1] = m})], 1..12)
SpentOver(year, P) ==
    SumOf([m \in 1..12 |-> SumOf([p \in P |-> Spent(year, p[1], p[2])],
                                 {p \in P : p[1] = m})], 1..12)

\* the months of the year-to-date row
ToDateMonths ==
    IF pivot.year # NoYear /\ pivot.year = pivot.current.year
    THEN 1..pivot.current.month ELSE 1..12

\* ------------------------------------------------------------------ C22
\* C22: when a year is selected, the cell of each month and category
\* shows the budget minus the spending when the budget map has an entry
\* for that year, month and category (an entry of 0 included) and the
\* spending when it has none, to two decimals; the spending is the sum of
\* the prices of the expenses of that year, month and category.
C22_MonthlyCells ==
    pivot.year # NoYear
    => \A m \in 1..12 : \A c \in pivot.columns :
          pivot.months[m].cells[c]
            = TwoDecimals(IF HasBudget(pivot.year, m, c)
                          THEN RatSub(BudgetOf(pivot.year, m, c), Spent(pivot.year, m, c))
                          ELSE Spent(pivot.year, m, c))

\* with a budget of 0 for "a" in February and none in January, 20 spent in
\* February shows as -20.00 and 10 spent in January as 10.00
C22_Witness ==
    /\ pivot.year = ThisYear
    /\ HasBudget(ThisYear, 2, NameLower) /\ BudgetOf(ThisYear, 2, NameLower) = Zero
    /\ ~HasBudget(ThisYear, 1, NameLower)
    /\ pivot.months[2].cells[NameLower] = <<"-", "2", "0", ".", "0", "0">>
    /\ pivot.months[1].cells[NameLower] = <<"1", "0", ".", "0", "0">>

\* ------------------------------------------------------------------ C23
\* C23: the Total of each month shows, when a category has a budget entry
\* for the month, the sum of the month's entries minus the spending on the
\* categories that have one, and otherwise the sum of the spending on all
\* categories.
C23_MonthlyTotal ==
    pivot # NoPivot
    => \A m \in 1..12 :
          LET entries == Budgeted(pivot.year, {m}, pivot.columns)
          IN pivot.months[m].total
               = TwoDecimals(IF entries # {}
                             THEN RatSub(BudgetOver(pivot.year, entries),
                                         SpentOver(pivot.year, entries))
                             ELSE SpentOver(pivot.year, {m} \X pivot.columns))

\* January with 15 budgeted for "a", 10 spent on "a" and 3 on "b", which
\* has no budget: the Total is 5.00
C23_Witness ==
    /\ pivot.year = ThisYear
    /\ Budgeted(ThisYear, {1}, pivot.columns) = {<<1, NameLower>>}
    /\ Spent(ThisYear, 1, NameLower) = Amount(10)
    /\ Spent(ThisYear, 1, NameB) = Amount(3)
    /\ pivot.months[1].total = <<"5", ".", "0", "0">>

\* ------------------------------------------------------------------ C24
\* C24 as claimed: in the year-to-date and year-end rows the cell of a
\* category shows the sum of its budget entries over the row's months
\* minus its spending over them when it has an entry in one of those
\* months (an entry of 0 included), and its spending when it has none.
C24_AsClaimed ==
    pivot # NoPivot
    => \A c \in pivot.columns :
          LET cell(M) ==
                  LET entries == Budgeted(pivot.year, M, {c})
                  IN TwoDecimals(IF entries # {}
                                 THEN RatSub(BudgetOver(pivot.year, entries),
                                             SpentOver(pivot.year, M \X {c}))
                                 ELSE SpentOver(pivot.year, M \X {c}))
          IN /\ pivot.toDate.cells[c] = cell(ToDateMonths)
             /\ pivot.yearEnd.cells[c] = cell(1..12)

\* ------------------------------------------------------------------ C25
\* C25 as claimed: the Total of the year-to-date and year-end rows shows,
\* when a category has a budget entry in one of the row's months, the sum
\* of the entries of those months minus the spending on what is budgeted
\* (read either as the months and categories with an entry, or as all the
\* row's months of the categories with one), and otherwise the sum of all
\* the spending of those months.
C25_AsClaimed ==
    pivot # NoPivot
    => LET total(M) ==
               LET entries == Budgeted(pivot.year, M, pivot.columns)
                   cats == {p[2] : p \in entries}
               IN IF entries # {}
                  THEN {TwoDecimals(RatSub(BudgetOver(pivot.year, entries),
                                           SpentOver(pivot.year, entries))),
                        TwoDecimals(RatSub(BudgetOver(pivot.year, entries),
                                           SpentOver(pivot.year, M \X cats)))}
                  ELSE {TwoDecimals(SpentOver(pivot.year, M \X pivot.columns))}
       IN /\ pivot.toDate.total \in total(ToDateMonths)
          /\ pivot.yearEnd.total \in total(1..12)

\* ------------------------------------------------------------------ C26
\* C26: the year-to-date row is made of the months 1 to the current month
\* when the selected year is the current year and of all 12 months for
\* another year or all years, and the year-end row of all 12 months: each
\* of their cells shows the spending of those months, or the budget
\* entries of those months minus that spending.  When the selection is
\* not the current year the two rows are equal cell by cell.
C26_SummaryMonths ==
    pivot # NoPivot
    => LET cell(M, c) ==
               LET s == SpentOver(pivot.year, M \X {c})
                   b == BudgetOver(pivot.year, Budgeted(pivot.year, M, {c}))
               IN {TwoDecimals(s), TwoDecimals(RatSub(b, s))}
           total(M) ==
               LET s == SpentOver(pivot.year, M \X pivot.columns)
                   b == BudgetOver(pivot.year, Budgeted(pivot.year, M, pivot.columns))
               IN {TwoDecimals(s), TwoDecimals(RatSub(b, s))}
       IN /\ \A c \in pivot.columns :
               /\ pivot.toDate.cells[c] \in cell(ToDateMonths, c)
               /\ pivot.yearEnd.cells[c] \in cell(1..12, c)
          /\ pivot.toDate.total \in total(ToDateMonths)
          /\ pivot.yearEnd.total \in total(1..12)
          /\ (pivot.year = NoYear \/ pivot.year # pivot.current.year)
               => pivot.toDate = pivot.yearEnd

\* in February of the selected year, 10 spent in January and 2.5 in March:
\* the year-to-date row shows 10.00 and the year-end row 12.50
C26_Witness ==
    /\ pivot.year = ThisYear /\ pivot.current = [year |-> ThisYear, month |-> 2]
    /\ Spent(ThisYear, 1, NameLower) = Amount(10)
    /\ Spent(ThisYear, 3, NameLower) = Rat(5, 2)
    /\ pivot.toDate.cells[NameLower] = <<"1", "0", ".", "0", "0">>
    /\ pivot.yearEnd.cells[NameLower] = <<"1", "2", ".", "5", "0">>
    /\ pivot.toDate.total = <<"1", "0", ".", "0", "0">>
    /\ pivot.yearEnd.total = <<"1", "2", ".", "5", "0">>

\* ------------------------------------------------------------------ C27
\* the trimmed column k of a row, empty when the row is shorter
Column(row, k) == IF k <= Len(row) THEN Strip(row[k]) ELSE <<>>

\* where the name of a row is: after the id in a row of 6 or more columns
IdColumns(row) == IF Len(row) >= 6 THEN 1 ELSE 0

\* a row with a name, a date and a category
Complete(row) ==
    /\ row # <<>>
    /\ Column(row, IdColumns(row) + 1) # <<>>
    /\ Column(row, IdColumns(row) + 2) # <<>>
    /\ Column(row, IdColumns(row) + 4) # <<>>

\* C27: read_expenses returns, in the order of the file, one Expense for
\* each row whose name, date and category are non-blank once trimmed, a
\* row of 6 or more columns read id-first and a shorter row as a legacy row
\* with an empty id; blank rows and rows with a blank name, date or
\* category are skipped, a missing file gives no Expense, and the file is
\* as it was before the read.
C27_ReadExpenses ==
    call.op = "read"
    => LET kept == Sorted({i \in 1..Len(rows) : Complete(rows[i])})
       IN /\ exists = call.preExists /\ rows = call.preRows
          /\ ~exists => cache = <<>>
          /\ exists =>
               /\ Len(cache) = Len(kept)
               /\ \A k \in 1..Len(kept) :
                     LET row == rows[kept[k]]
                         o == IdColumns(row)
                     IN /\ cache[k].id = (IF Len(row) >= 6 THEN Column(row, 1) ELSE <<>>)
                        /\ cache[k].name = Column(row, o + 1)
                        /\ cache[k].date = Column(row, o + 2)
                        /\ cache[k].price = Column(row, o + 3)
                        /\ cache[k].category = Column(row, o + 4)
                        /\ cache[k].description = Column(row, o + 5)

\* a legacy row, then a row without a category: one Expense, with an empty
\* id and the name of the legacy row
C27_Witness ==
    /\ call.op = "read"
    /\ rows = << <<NameAPadded, DateD, PriceTwoMinusOne, CatC, DescE>>,
                 <<IdX, NameA, DateD, PriceOne, Empty, DescE>> >>
    /\ Len(cache) = 1
    /\ cache[1] = Expense(Empty, NameA, DateD, PriceTwoMinusOne, CatC, DescE)

\* ------------------------------------------------------------------ C28
\* the (name, date, price, category, description) of a row
DetailsOf(row) == IF Len(row) >= 6 THEN SubSeq(row, 2, 6) ELSE row

\* C28: from an empty store, after any sequence of add_expense,
\* update_expense and delete_expense calls with allow_duplicates=False, no
\* two rows of the file have the same (name, date, price, category,
\* description).
C28_NoDuplicateRows ==
    \A i, j \in 1..Len(rows) :
        i # j => DetailsOf(rows[i]) # DetailsOf(rows[j])

\* two rows in the file, and an update that would have made the first
\* equal to the second was refused
C28_Witness ==
    /\ call.op = "update" /\ call.res = "DuplicateExpense"
    /\ Len(rows) = 2
    /\ FindId(rows, Strip(call.id)) = 1
    /\ TrimAll(call.d) = DetailsOf(rows[2])

\* ------------------------------------------------------------------ C29
\* C29: when another writer has appended a row to the file between the
\* read and the write of an update_expense or delete_expense call, the
\* call ends as it would have on the rows it read - "ok" when the id is in
\* them (and, for an update that refuses duplicates, no other of them
\* carries the new details), with the file then holding those rows with
\* the one row replaced or removed and not the appended row; a call that
\* raises leaves the file with the appended row.
C29_AppendedRowLost ==
    (pc = "returned" /\ proc.op \in {"update", "delete"} /\ proc.appended # <<>>)
    => LET eid == Strip(proc.id)
           found == {i \in 1..Len(proc.held) :
                        Len(proc.held[i]) >= 1 /\ proc.held[i][1] = eid}
           clash == \E i \in 1..Len(proc.held) :
                        /\ \E k \in found : k < i \/ i \notin found
                        /\ Len(proc.held[i]) >= 6
                        /\ SubSeq(proc.held[i], 2, 6) = TrimAll(proc.d)
           lost == \A k \in 1..Len(proc.appended) :
                      \A i \in 1..Len(rows) : rows[i] # proc.appended[k]
       IN IF found = {} THEN call.res = "RecordNotFound" /\ rows = call.preRows
          ELSE IF proc.op = "update" /\ ~proc.allow /\ clash
          THEN call.res = "DuplicateExpense" /\ rows = call.preRows
          ELSE /\ call.res = "ok"
               /\ lost
               /\ Len(rows) = Len(proc.held) - (IF proc.op = "delete" THEN 1 ELSE 0)
               /\ call.preRows = proc.held \o proc.appended

\* an update that refuses duplicates went through although the appended
\* row carries the new details, and the file of two rows has lost that row
C29_Witness ==
    /\ pc = "returned" /\ proc.op = "update" /\ ~proc.allow
    /\ call.res = "ok"
    /\ Len(proc.held) = 2
    /\ proc.appended = << <<IdW>> \o TrimAll(proc.d) >>
    /\ call.preRows = proc.held \o proc.appended
    /\ Len(rows) = 2
    /\ \A i \in 1..Len(rows) : rows[i] # proc.appended[1]

====
